---------------------------- MODULE Spec2Model ----------------------------
(***************************************************************************)
(* State-machine model of the payment paths of the OnlyAgents API:         *)
(*   - verifyCreamTransfer            (utils/solana.js)                    *)
(*   - POST/DELETE /agents/:name/subscribe + AgentService.subscribe /      *)
(*     AgentService.unsubscribe                                            *)
(*   - POST /tips + TipService.recordTip / TipService.verifyTransaction    *)
(*   - errorHandler                                                        *)
(* Every HTTP request is a process; every awaited database statement or    *)
(* RPC call is one atomic step, so requests interleave at their awaits.    *)
(*                                                                         *)
(* Numbers.  Token quantities are integers counted in base units of the    *)
(* token.  A JavaScript number v that the code reads as "token units" is   *)
(* represented by the integer v * UiScale, so that the code's comparison   *)
(* amount >= expectedAmount becomes a comparison of integers.              *)
(***************************************************************************)
EXTENDS Integers, Sequences, FiniteSets, TLC

(***************************************************************************)
(* Bounds of the model.                                                    *)
(***************************************************************************)
\* base units per token unit (10^decimals of the mint), kept small
UiScale == 10
\* most instructions (outer and inner together) of a generated transaction
MaxIx == 2
\* number of concurrent request slots
NumProcs == 3
\* the subscription price of the priced agents, in token units
Price == 5

(***************************************************************************)
(* The chain as the RPC node reports it.                                   *)
(***************************************************************************)
Null == "null"
Throws == "throws"

\* config.solana.creamTokenMint
creamTokenMint == "2WPG6UeEwZ1JPBcXfAcTbtNrnoVXoVu6YP2eSLwbpump"
OtherMint == "OtherMint"

Agents == {"a1", "a2", "a3"}

\* agents.solana_address
solana_address(a) == CASE a = "a1" -> "W1" [] a = "a2" -> "W2" [] OTHER -> "W3"

\* new PublicKey(address): throws on a missing or malformed address
PublicKeyOk(addr) == addr \notin {"", "bad"}

\* conn.getParsedAccountInfo(address), reduced to value.data.parsed.info:
\* st = "throws" (network error), "null" (no such account, or not a parsed
\* token account) or "ok" with the mint and owner of a token account
AccountInfo(st, mint, owner) == [st |-> st, mint |-> mint, owner |-> owner]

getParsedAccountInfo(addr) ==
  CASE addr = "down" -> AccountInfo(Throws, "", "")
    [] addr = "T1c"  -> AccountInfo("ok", creamTokenMint, "W1")
    [] addr = "T2c"  -> AccountInfo("ok", creamTokenMint, "W2")
    [] addr = "T2o"  -> AccountInfo("ok", OtherMint, "W2")
    [] addr = "T3c"  -> AccountInfo("ok", creamTokenMint, "W3")
    [] OTHER         -> AccountInfo(Null, "", "")

\* conn.getParsedTransaction(txId) gives st = "throws", "null" or "ok" with
\* meta.err set or not, transaction.message.instructions and
\* meta.innerInstructions (a list of groups, each with its instructions)
Transaction(st, err, instructions, innerInstructions) ==
  [st |-> st, err |-> err, instructions |-> instructions,
   innerInstructions |-> innerInstructions]

(***************************************************************************)
(* A parsed instruction.  raw is the number of base units moved.           *)
(*   transfer:        parsed.info = {source, destination, amount: "raw"}   *)
(*   transferChecked: parsed.info = {source, destination, mint,            *)
(*                      tokenAmount: {amount: "raw", uiAmount: raw/scale}} *)
(* ui = FALSE stands for a tokenAmount whose uiAmount is null.             *)
(***************************************************************************)
Ix(program, type, source, destination, raw, mint, ui) ==
  [program |-> program, type |-> type, source |-> source,
   destination |-> destination, raw |-> raw, mint |-> mint, ui |-> ui]

\* parseFloat(info.amount) || parseInt(info.amount, 10)   (transfer)
\* info.amount is the decimal string of the base units; the code reads the
\* number as it stands, the same scale as expectedAmount
transferAmount(ix) == ix.raw * UiScale

\* parseFloat(info.tokenAmount?.uiAmount || info.tokenAmount?.amount || 0)
\* uiAmount = raw / UiScale token units; when it is falsy (0 or null) the
\* base-unit string tokenAmount.amount is parsed instead
transferCheckedAmount(ix) ==
  IF ix.ui /\ ix.raw # 0 THEN ix.raw ELSE ix.raw * UiScale

\* [...instructions, ...innerInstructions.flatMap(ix => ix.instructions)]
RECURSIVE flatMap(_)
flatMap(groups) ==
  IF groups = <<>> THEN <<>> ELSE Head(groups) \o flatMap(Tail(groups))

allInstructions(tx) == tx.instructions \o flatMap(tx.innerInstructions)

\* result objects of verifyCreamTransfer, extended with what the call did:
\* fetched = the addresses passed to getParsedAccountInfo, in order,
\* scanned = how many instructions the loop looked at, hit = index of the
\* instruction that qualified (0 if none)
Invalid(error, fetched, scanned) ==
  [valid |-> FALSE, amount |-> 0, sender |-> "", error |-> error,
   fetched |-> fetched, scanned |-> scanned, hit |-> 0]

Valid(amount, sender, fetched, scanned) ==
  [valid |-> TRUE, amount |-> amount, sender |-> sender, error |-> "",
   fetched |-> fetched, scanned |-> scanned, hit |-> scanned]

\* sourceInfo?.value?.data?.parsed?.info?.owner || 'unknown'
sourceOwner(info) == IF info.st = Null THEN "unknown" ELSE info.owner

\* Candidate with the comparison of the destination's owner left out
CandidateAnyOwner(ix, amount, needMint, recipientAddress, expectedAmount, f, i) ==
  IF ~PublicKeyOk(ix.destination) THEN [skip |-> TRUE, fetched |-> f]
  ELSE LET destData == getParsedAccountInfo(ix.destination)
           f1 == Append(f, ix.destination)
       IN IF destData.st = Throws THEN [skip |-> TRUE, fetched |-> f1]
          ELSE IF /\ destData.st # Null
                  /\ (needMint => destData.mint = creamTokenMint)
                  /\ amount >= expectedAmount
               THEN IF ~PublicKeyOk(ix.source) THEN [skip |-> TRUE, fetched |-> f1]
                    ELSE LET sourceInfo == getParsedAccountInfo(ix.source)
                             f2 == Append(f1, ix.source)
                         IN IF sourceInfo.st = Throws
                            THEN [skip |-> TRUE, fetched |-> f2]
                            ELSE [skip |-> FALSE, fetched |-> f2,
                                  result |-> Valid(amount, sourceOwner(sourceInfo), f2, i)]
               ELSE [skip |-> TRUE, fetched |-> f1]

\* Candidate without its try/catch: an exception of an account fetch is not
\* swallowed but ends the call in the outer catch
CandidateRethrowing(ix, amount, needMint, recipientAddress, expectedAmount, f, i) ==
  LET failed(g) == [skip |-> FALSE, fetched |-> g,
                    result |-> Invalid("Verification failed", g, i)]
  IN IF ~PublicKeyOk(ix.destination) THEN failed(f)
     ELSE LET destData == getParsedAccountInfo(ix.destination)
              f1 == Append(f, ix.destination)
          IN IF destData.st = Throws THEN failed(f1)
             ELSE IF /\ destData.st # Null
                     /\ (needMint => destData.mint = creamTokenMint)
                     /\ destData.owner = recipientAddress
                     /\ amount >= expectedAmount
                  THEN IF ~PublicKeyOk(ix.source) THEN failed(f1)
                       ELSE LET sourceInfo == getParsedAccountInfo(ix.source)
                                f2 == Append(f1, ix.source)
                            IN IF sourceInfo.st = Throws THEN failed(f2)
                               ELSE [skip |-> FALSE, fetched |-> f2,
                                     result |-> Valid(amount, sourceOwner(sourceInfo), f2, i)]
                  ELSE [skip |-> TRUE, fetched |-> f1]

\* the body of the try block of one candidate: "skip" when the candidate is
\* passed over (condition false, or an exception swallowed by its catch),
\* otherwise the result returned.  f = addresses fetched so far.
Candidate(ix, amount, needMint, recipientAddress, expectedAmount, f, i) ==
  IF ~PublicKeyOk(ix.destination) THEN [skip |-> TRUE, fetched |-> f]
  ELSE LET destData == getParsedAccountInfo(ix.destination)
           f1 == Append(f, ix.destination)
       IN IF destData.st = Throws THEN [skip |-> TRUE, fetched |-> f1]
          ELSE IF /\ destData.st # Null
                  /\ (needMint => destData.mint = creamTokenMint)
                  /\ destData.owner = recipientAddress
                  /\ amount >= expectedAmount
               THEN IF ~PublicKeyOk(ix.source) THEN [skip |-> TRUE, fetched |-> f1]
                    ELSE LET sourceInfo == getParsedAccountInfo(ix.source)
                             f2 == Append(f1, ix.source)
                         IN IF sourceInfo.st = Throws
                            THEN [skip |-> TRUE, fetched |-> f2]
                            ELSE [skip |-> FALSE, fetched |-> f2,
                                  result |-> Valid(amount, sourceOwner(sourceInfo), f2, i)]
               ELSE [skip |-> TRUE, fetched |-> f1]

\* scan with the mint of the destination account compared for a
\* transferChecked too, as it is for a plain transfer
RECURSIVE scanComparingAccountMint(_, _, _, _, _)
scanComparingAccountMint(all, i, recipientAddress, expectedAmount, f) ==
  IF i > Len(all)
  THEN Invalid("No matching $CREAM transfer found in transaction", f, Len(all))
  ELSE LET ix == all[i]
           c == IF ix.program = "spl-token" /\ ix.type = "transfer"
                THEN IF ix.destination # "" /\ ix.source # ""
                     THEN Candidate(ix, transferAmount(ix), TRUE,
                                    recipientAddress, expectedAmount, f, i)
                     ELSE [skip |-> TRUE, fetched |-> f]
                ELSE IF ix.program = "spl-token" /\ ix.type = "transferChecked"
                THEN IF ix.mint = creamTokenMint
                     THEN Candidate(ix, transferCheckedAmount(ix), TRUE,
                                    recipientAddress, expectedAmount, f, i)
                     ELSE [skip |-> TRUE, fetched |-> f]
                ELSE [skip |-> TRUE, fetched |-> f]
       IN IF c.skip
          THEN scanComparingAccountMint(all, i + 1, recipientAddress,
                                        expectedAmount, c.fetched)
          ELSE c.result

\* for (const ix of allInstructions) { ... } followed by the final return
RECURSIVE scan(_, _, _, _, _)
scan(all, i, recipientAddress, expectedAmount, f) ==
  IF i > Len(all)
  THEN Invalid("No matching $CREAM transfer found in transaction", f, Len(all))
  ELSE LET ix == all[i]
           c == IF ix.program = "spl-token" /\ ix.type = "transfer"
                THEN IF ix.destination # "" /\ ix.source # ""
                     THEN Candidate(ix, transferAmount(ix), TRUE,
                                    recipientAddress, expectedAmount, f, i)
                     ELSE [skip |-> TRUE, fetched |-> f]
                ELSE IF ix.program = "spl-token" /\ ix.type = "transferChecked"
                THEN IF ix.mint = creamTokenMint
                     THEN Candidate(ix, transferCheckedAmount(ix), FALSE,
                                    recipientAddress, expectedAmount, f, i)
                     ELSE [skip |-> TRUE, fetched |-> f]
                ELSE [skip |-> TRUE, fetched |-> f]
       IN IF c.skip
          THEN scan(all, i + 1, recipientAddress, expectedAmount, c.fetched)
          ELSE c.result

\* verifyCreamTransfer with the test of tx.meta.err left out
verifyCreamTransferIgnoringErr(tx, recipientAddress, expectedAmount) ==
  IF tx.st = Throws THEN Invalid("Verification failed", <<>>, 0)
  ELSE IF tx.st = Null THEN Invalid("Transaction not found", <<>>, 0)
  ELSE scan(allInstructions(tx), 1, recipientAddress, expectedAmount, <<>>)

\* verifyCreamTransfer without its outer try/catch: an exception of
\* getParsedTransaction leaves the call as the error thrown, not as a result
verifyCreamTransferNoCatch(tx, recipientAddress, expectedAmount) ==
  IF tx.st = Throws THEN [thrown |-> "Error", fetched |-> <<>>, scanned |-> 0]
  ELSE IF tx.st = Null THEN Invalid("Transaction not found", <<>>, 0)
  ELSE IF tx.err THEN Invalid("Transaction failed on-chain", <<>>, 0)
  ELSE scan(allInstructions(tx), 1, recipientAddress, expectedAmount, <<>>)

\* verifyCreamTransfer(txId, recipientAddress, expectedAmount), where tx is
\* what conn.getParsedTransaction(txId) gave: Throws, Null or the transaction
verifyCreamTransfer(tx, recipientAddress, expectedAmount) ==
  IF tx.st = Throws THEN Invalid("Verification failed", <<>>, 0)
  ELSE IF tx.st = Null THEN Invalid("Transaction not found", <<>>, 0)
  ELSE IF tx.err THEN Invalid("Transaction failed on-chain", <<>>, 0)
  ELSE scan(allInstructions(tx), 1, recipientAddress, expectedAmount, <<>>)


(***************************************************************************)
(* The accounts and the transactions of the modelled world.                *)
(***************************************************************************)
\* names a request may carry; "nobody" is no registered agent
Names == Agents \cup {"nobody"}

\* AgentService.findByName(name): the agent's id, or Null
findByName(name) == IF name \in Agents THEN name ELSE Null

\* agents.subscription_price (token units); a1 never set a price
subscription_price(a) == IF a = "a1" THEN 0 ELSE Price * UiScale

Sigs == {"s1", "s2", "s3"}

Request(agent, name, sig, post, amount) ==
  [agent |-> agent, name |-> name, sig |-> sig, post |-> post, amount |-> amount]

\* the subscribe requests that may arrive: any agent subscribing to a2 with a
\* signature that verifies, a1 with each other target, and a1 and a2 itself
\* with the failed transaction
SubscribeRequests ==
  {Request(agent, "a2", sig, "", 0) : agent \in Agents, sig \in {"s1", "s2"}}
    \cup {Request("a1", name, "s1", "", 0) : name \in Names}
    \cup {Request(agent, "a2", "s3", "", 0) : agent \in {"a1", "a2"}}

\* the unsubscribe requests that may arrive
UnsubscribeRequests ==
  {Request(agent, "a2", "", "", 0) : agent \in Agents}
    \cup {Request("a1", "nobody", "", "", 0)}

\* what the node answers for a signature when it answers at all:
\*   s1  transferChecked of Price tokens  T1c -> T2c   (a1 pays a2)
\*   s2  transfer of Price + 2 tokens     T3c -> T2c   (a3 pays a2)
\*   s3  the same as s1, but the transaction failed on-chain
ChainTransaction(sig) ==
  CASE sig = "s1" -> Transaction("ok", FALSE,
         <<Ix("spl-token", "transferChecked", "T1c", "T2c", Price * UiScale, creamTokenMint, TRUE)>>, <<>>)
    [] sig = "s2" -> Transaction("ok", FALSE, <<>>,
         << <<Ix("spl-token", "transfer", "T3c", "T2c", (Price + 2) * UiScale, "", FALSE)>> >>)
    [] sig = "s3" -> Transaction("ok", TRUE,
         <<Ix("spl-token", "transferChecked", "T1c", "T2c", Price * UiScale, creamTokenMint, TRUE)>>, <<>>)
    [] OTHER -> Transaction(Null, FALSE, <<>>, <<>>)

\* conn.getParsedTransaction / connection.getTransaction: the node answers
\* (up) or the call throws
getTransaction(sig, up) ==
  IF up THEN ChainTransaction(sig) ELSE Transaction(Throws, FALSE, <<>>, <<>>)

(***************************************************************************)
(* State.                                                                  *)
(***************************************************************************)
VARIABLES
  tips,                      \* table tips
  subscription_transactions, \* table subscription_transactions
  agent_subscriptions,       \* table agent_subscriptions, as (subscriber, target)
  subscriber_count,          \* agents.subscriber_count
  tip_count,                 \* agents.tip_count
  tip_volume,                \* agents.tip_volume
  req,                       \* the requests in flight, one per slot
  agentService,              \* which AgentService file serves the requests
  call,                      \* a direct call of verifyCreamTransfer
  votes,                     \* table votes
  score,                     \* posts.score
  karma,                     \* agents.karma
  vote,                      \* the VoteService.vote calls in flight, one per slot
  storage,                   \* the Map of the rate limiter: key -> timestamps
  now,                       \* Date.now()
  limited                    \* the rate-limited requests answered, one per slot

vars == <<tips, subscription_transactions, agent_subscriptions,
          subscriber_count, tip_count, tip_volume, req, agentService, call,
          votes, score, karma, vote, storage, now, limited>>

\* the state of the vote routes and of the rate limiter, which the payment
\* routes never touch
voting == <<votes, score, karma, vote>>
limiter == <<storage, now, limited>>

tables == <<tips, subscription_transactions, agent_subscriptions,
            subscriber_count, tip_count, tip_volume>>

Procs == 1 .. NumProcs

\* the two AgentService sources of the repository
OnConflict == "unnamed/part_010"
CheckThenInsert == "services/AgentService.js"

NoVerification == Invalid("", <<>>, 0)

\* the post of a response: content, url and locked (locked is not set on a
\* post that is not locked: FALSE here)
PostData(content, url, locked) == [content |-> content, url |-> url, locked |-> locked]
NoData == PostData(Null, Null, FALSE)

Idle ==
  [pc |-> "idle", kind |-> "", agent |-> "", name |-> "", target |-> "",
   sig |-> "", amount |-> 0, fee |-> 0, post |-> "",
   verification |-> NoVerification, action |-> "", status |-> 0, error |-> "",
   code |-> "", data |-> NoData]

NoCall ==
  [pc |-> "none", tx |-> Transaction(Null, FALSE, <<>>, <<>>),
   recipientAddress |-> "", expectedAmount |-> 0, result |-> NoVerification]

(***************************************************************************)
(* Errors and responses.                                                   *)
(***************************************************************************)
\* new ApiError(message, statusCode, code): code is the machine-readable kind
\* that toJSON puts in the response
ApiError(message, statusCode, code) ==
  [type |-> "ApiError", message |-> message, statusCode |-> statusCode, code |-> code]
\* new BadRequestError(message, code)
BadRequestErrorWithCode(message, code) == ApiError(message, 400, code)
\* new BadRequestError(message): code = 'BAD_REQUEST'
BadRequestError(message) == BadRequestErrorWithCode(message, "BAD_REQUEST")
\* `${resource} not found`
NotFoundError(resource) ==
  ApiError(CASE resource = "Agent" -> "Agent not found"
             [] resource = "Recipient agent" -> "Recipient agent not found"
             [] resource = "Post" -> "Post not found"
             [] OTHER -> "Resource not found", 404, "NOT_FOUND")
\* an error thrown by the pg driver, with its SQLSTATE
PgError(code) == [type |-> "pg", message |-> "", statusCode |-> 0, code |-> code]

\* errorHandler(err, req, res, next): status, error text and code of the
\* response (a response made for a pg error carries no code)
errorHandler(err) ==
  IF err.type = "ApiError"
  THEN [status |-> err.statusCode, error |-> err.message, code |-> err.code]
  ELSE [status |-> 400, code |-> "",
        error |-> CASE err.code = "22P02" -> "Invalid ID format"
                    [] err.code = "23503" -> "Referenced resource not found"
                    [] err.code = "23505" -> "Duplicate entry"
                    [] err.code = "23514" -> "Validation constraint failed"
                    [] OTHER -> "Database error"]

\* the request r ends with the response that errorHandler makes of err
Fail(r, err) ==
  [r EXCEPT !.pc = "done", !.status = errorHandler(err).status,
            !.error = errorHandler(err).error, !.code = errorHandler(err).code]

\* success(res, ...) / created(res, ...)
Respond(r, status) == [r EXCEPT !.pc = "done", !.status = status]


(***************************************************************************)
(* POST /agents/:name/subscribe                                            *)
(***************************************************************************)
\* SubscribeStart with the test of the price left out
SubscribeStartNoPriceCheck(p) ==
  /\ req[p].pc = "idle"
  /\ \E rq \in SubscribeRequests :
       LET targetAgent == findByName(rq.name)
           r == [Idle EXCEPT !.kind = "subscribe", !.agent = rq.agent,
                             !.name = rq.name, !.sig = rq.sig]
       IN req' = [req EXCEPT ![p] =
            IF targetAgent = Null THEN Fail(r, NotFoundError("Agent"))
            ELSE [r EXCEPT !.target = targetAgent, !.pc = "verify"]]
  /\ UNCHANGED <<tables, agentService, call, voting, limiter>>

\* lines 99-108: look the target up and read its price
SubscribeStart(p) ==
  /\ req[p].pc = "idle"
  /\ \E rq \in SubscribeRequests :
       LET targetAgent == findByName(rq.name)
           r == [Idle EXCEPT !.kind = "subscribe", !.agent = rq.agent,
                             !.name = rq.name, !.sig = rq.sig]
       IN req' = [req EXCEPT ![p] =
            IF targetAgent = Null THEN Fail(r, NotFoundError("Agent"))
            ELSE IF subscription_price(targetAgent) <= 0
            THEN Fail([r EXCEPT !.target = targetAgent],
                      BadRequestError("This agent has not set a subscription price"))
            ELSE [r EXCEPT !.target = targetAgent, !.pc = "verify"]]
  /\ UNCHANGED <<tables, agentService, call, voting, limiter>>

\* SubscribeVerify with the test of verification.valid left out
SubscribeVerifyUnchecked(p) ==
  /\ req[p].pc = "verify"
  /\ \E up \in BOOLEAN :
       LET r == req[p]
           verification ==
             verifyCreamTransfer(getTransaction(r.sig, up),
                                 solana_address(r.target),
                                 subscription_price(r.target))
       IN req' = [req EXCEPT ![p] =
                    [r EXCEPT !.verification = verification, !.pc = "subscribe"]]
  /\ UNCHANGED <<tables, agentService, call, voting, limiter>>

\* lines 110-119: verify the transfer on the chain
SubscribeVerify(p) ==
  /\ req[p].pc = "verify"
  /\ \E up \in BOOLEAN :
       LET r == req[p]
           verification ==
             verifyCreamTransfer(getTransaction(r.sig, up),
                                 solana_address(r.target),
                                 subscription_price(r.target))
           r1 == [r EXCEPT !.verification = verification]
       IN req' = [req EXCEPT ![p] =
            IF ~verification.valid
            THEN Fail(r1, BadRequestErrorWithCode("Transaction verification failed",
                                                  "INVALID_TX"))
            ELSE [r1 EXCEPT !.pc = "subscribe"]]
  /\ UNCHANGED <<tables, agentService, call, voting, limiter>>

\* AgentService.subscribe of unnamed/part_010: the self check, then one
\* database transaction with INSERT ... ON CONFLICT DO NOTHING and the
\* increment, committed as a whole
subscribe(p) ==
  /\ req[p].pc = "subscribe"
  /\ agentService = OnConflict
  /\ LET r == req[p]
         pair == <<r.agent, r.target>>
     IN IF r.agent = r.target
        THEN /\ req' = [req EXCEPT ![p] =
                          Fail(r, BadRequestError("Cannot subscribe to yourself"))]
             /\ UNCHANGED <<agent_subscriptions, subscriber_count>>
        ELSE IF pair \in agent_subscriptions
        THEN /\ req' = [req EXCEPT ![p] =
                          [r EXCEPT !.action = "already_subscribed", !.pc = "record"]]
             /\ UNCHANGED <<agent_subscriptions, subscriber_count>>
        ELSE /\ agent_subscriptions' = agent_subscriptions \cup {pair}
             /\ subscriber_count' =
                  [subscriber_count EXCEPT ![r.target] = @ + 1]
             /\ req' = [req EXCEPT ![p] =
                          [r EXCEPT !.action = "subscribed", !.pc = "record"]]
  /\ UNCHANGED <<tips, subscription_transactions, tip_count, tip_volume,
                 agentService, call, voting, limiter>>

\* AgentService.subscribe of services/AgentService.js, first part: the self
\* check and the SELECT of an existing pair
subscribeSelect(p) ==
  /\ req[p].pc = "subscribe"
  /\ agentService = CheckThenInsert
  /\ LET r == req[p]
     IN req' = [req EXCEPT ![p] =
          IF r.agent = r.target
          THEN Fail(r, BadRequestError("Cannot subscribe to yourself"))
          ELSE IF <<r.agent, r.target>> \in agent_subscriptions
          THEN [r EXCEPT !.action = "already_subscribed", !.pc = "record"]
          ELSE [r EXCEPT !.pc = "subscribe_tx"]]
  /\ UNCHANGED <<tables, agentService, call, voting, limiter>>

\* second part: the transaction with the plain INSERT and the increment; the
\* INSERT of a pair that exists by now violates UNIQUE(subscriber_id,
\* target_id), the transaction is rolled back and the error rethrown
subscribeTransaction(p) ==
  /\ req[p].pc = "subscribe_tx"
  /\ LET r == req[p]
         pair == <<r.agent, r.target>>
     IN IF pair \in agent_subscriptions
        THEN /\ req' = [req EXCEPT ![p] = Fail(r, PgError("23505"))]
             /\ UNCHANGED <<agent_subscriptions, subscriber_count>>
        ELSE /\ agent_subscriptions' = agent_subscriptions \cup {pair}
             /\ subscriber_count' =
                  [subscriber_count EXCEPT ![r.target] = @ + 1]
             /\ req' = [req EXCEPT ![p] =
                          [r EXCEPT !.action = "subscribed", !.pc = "record"]]
  /\ UNCHANGED <<tips, subscription_transactions, tip_count, tip_volume,
                 agentService, call, voting, limiter>>

\* a row of subscription_transactions
SubscriptionTransaction(r) ==
  [subscriber_id |-> r.agent, target_id |-> r.target, tx_id |-> r.sig,
   amount |-> r.verification.amount, sender_address |-> r.verification.sender]

\* lines 124-136: INSERT INTO subscription_transactions (tx_id is UNIQUE),
\* then the success response
SubscribeRecord(p) ==
  /\ req[p].pc = "record"
  /\ LET r == req[p]
     IN IF \E t \in subscription_transactions : t.tx_id = r.sig
        THEN /\ req' = [req EXCEPT ![p] = Fail(r, PgError("23505"))]
             /\ UNCHANGED subscription_transactions
        ELSE /\ subscription_transactions' =
                  subscription_transactions \cup {SubscriptionTransaction(r)}
             /\ req' = [req EXCEPT ![p] = Respond(r, 200)]
  /\ UNCHANGED <<tips, agent_subscriptions, subscriber_count, tip_count,
                 tip_volume, agentService, call, voting, limiter>>


(***************************************************************************)
(* DELETE /agents/:name/subscribe                                          *)
(***************************************************************************)
\* lines 143-147: look the target up
UnsubscribeStart(p) ==
  /\ req[p].pc = "idle"
  /\ \E rq \in UnsubscribeRequests :
       LET targetAgent == findByName(rq.name)
           r == [Idle EXCEPT !.kind = "unsubscribe", !.agent = rq.agent,
                             !.name = rq.name]
       IN req' = [req EXCEPT ![p] =
            IF targetAgent = Null THEN Fail(r, NotFoundError("Agent"))
            ELSE [r EXCEPT !.target = targetAgent, !.pc = "unsubscribe"]]
  /\ UNCHANGED <<tables, agentService, call, voting, limiter>>

\* AgentService.unsubscribe of unnamed/part_010: SELECT the pair
unsubscribeSelect(p) ==
  /\ req[p].pc = "unsubscribe"
  /\ agentService = OnConflict
  /\ LET r == req[p]
     IN req' = [req EXCEPT ![p] =
          IF <<r.agent, r.target>> \notin agent_subscriptions
          THEN Respond([r EXCEPT !.action = "not_subscribed"], 200)
          ELSE [r EXCEPT !.pc = "unsubscribe_delete"]]
  /\ UNCHANGED <<tables, agentService, call, voting, limiter>>

\* unsubscribeDelete deleting the proofs of the pair as well
unsubscribeDeleteWithProofs(p) ==
  /\ req[p].pc = "unsubscribe_delete"
  /\ agent_subscriptions' =
       agent_subscriptions \ {<<req[p].agent, req[p].target>>}
  /\ subscription_transactions' =
       {t \in subscription_transactions :
          ~(t.subscriber_id = req[p].agent /\ t.target_id = req[p].target)}
  /\ req' = [req EXCEPT ![p].pc = "unsubscribe_update"]
  /\ UNCHANGED <<tips, subscriber_count, tip_count, tip_volume, agentService, call, voting, limiter>>

\* ... DELETE the pair
unsubscribeDelete(p) ==
  /\ req[p].pc = "unsubscribe_delete"
  /\ agent_subscriptions' =
       agent_subscriptions \ {<<req[p].agent, req[p].target>>}
  /\ req' = [req EXCEPT ![p].pc = "unsubscribe_update"]
  /\ UNCHANGED <<tips, subscription_transactions, subscriber_count, tip_count,
                 tip_volume, agentService, call, voting, limiter>>

\* GREATEST(subscriber_count - 1, 0)
GREATEST(a, b) == IF a >= b THEN a ELSE b

\* unsubscribeUpdate with subscriber_count - 1 in place of GREATEST
unsubscribeUpdateNoFloor(p) ==
  /\ req[p].pc = "unsubscribe_update"
  /\ subscriber_count' = [subscriber_count EXCEPT ![req[p].target] = @ - 1]
  /\ req' = [req EXCEPT ![p] = Respond([req[p] EXCEPT !.action = "unsubscribed"], 200)]
  /\ UNCHANGED <<tips, subscription_transactions, agent_subscriptions,
                 tip_count, tip_volume, agentService, call, voting, limiter>>

\* ... UPDATE agents SET subscriber_count = GREATEST(subscriber_count - 1, 0)
unsubscribeUpdate(p) ==
  /\ req[p].pc = "unsubscribe_update"
  /\ subscriber_count' =
       [subscriber_count EXCEPT ![req[p].target] = GREATEST(@ - 1, 0)]
  /\ req' = [req EXCEPT ![p] = Respond([req[p] EXCEPT !.action = "unsubscribed"], 200)]
  /\ UNCHANGED <<tips, subscription_transactions, agent_subscriptions,
                 tip_count, tip_volume, agentService, call, voting, limiter>>

\* AgentService.unsubscribe of services/AgentService.js: DELETE ... RETURNING
unsubscribeDeleteReturning(p) ==
  /\ req[p].pc = "unsubscribe"
  /\ agentService = CheckThenInsert
  /\ LET r == req[p]
         pair == <<r.agent, r.target>>
     IN /\ agent_subscriptions' = agent_subscriptions \ {pair}
        /\ req' = [req EXCEPT ![p] =
             IF pair \notin agent_subscriptions
             THEN Respond([r EXCEPT !.action = "not_subscribed"], 200)
             ELSE [r EXCEPT !.pc = "unsubscribe_decrement"]]
  /\ UNCHANGED <<tips, subscription_transactions, subscriber_count, tip_count,
                 tip_volume, agentService, call, voting, limiter>>

\* ... UPDATE agents SET subscriber_count = subscriber_count - 1
unsubscribeDecrement(p) ==
  /\ req[p].pc = "unsubscribe_decrement"
  /\ subscriber_count' = [subscriber_count EXCEPT ![req[p].target] = @ - 1]
  /\ req' = [req EXCEPT ![p] = Respond([req[p] EXCEPT !.action = "unsubscribed"], 200)]
  /\ UNCHANGED <<tips, subscription_transactions, agent_subscriptions,
                 tip_count, tip_volume, agentService, call, voting, limiter>>

(***************************************************************************)
(* POST /tips                                                              *)
(***************************************************************************)
\* 10^6: stored amounts are NUMERIC(20, 6) and are counted in millionths
Micro == 1000000

\* the amount of a request is a JS number, finer than a millionth: it is
\* counted in units of 1/SubMicro millionth
SubMicro == 4

\* the JS number n (tokens) of a request
Tokens(n) == n * Micro * SubMicro

\* a value of x units of 1/d millionth assigned to a NUMERIC(20, 6) column:
\* rounded to the nearest millionth, a tie away from zero
NUMERIC_20_6(x, d) == (x \div d) + (IF 2 * (x % d) >= d THEN 1 ELSE 0)

\* posts that exist; a request may also name "ghost", or no post ("")
Posts == {"post1", "post2", "post3"}

\* the tip requests that may arrive: a1 tipping a2 100 tokens with s1 or
\* 250 tokens with s2, a3 tipping a2 0.00001475 tokens with s1 or 0.00000025
\* tokens with s2, and a1 with one field changed at a time ("s4" is the
\* signature of no transaction)
TipRequests ==
  {Request("a1", "a2", "s1", "", Tokens(100)),
   Request("a1", "a2", "s2", "", Tokens(250)),
   Request("a3", "a2", "s1", "", 59),
   Request("a3", "a2", "s2", "", 1)}
    \cup {Request("a1", name, "s1", "", Tokens(100)) : name \in {"a3", "a1", "nobody"}}
    \cup {Request("a1", "a2", "s1", post, Tokens(100)) : post \in {"post1", "ghost"}}
    \cup {Request("a1", "a2", "s1", "", 0)}
    \cup {Request("a1", "a2", sig, "", Tokens(100)) : sig \in {"s3", "s4"}}

\* FEE_RATE = 0.10, as a divisor
FEE_RATE == 10

\* Number((numAmount * FEE_RATE).toFixed(6)): a tenth of the request's number,
\* rounded to the nearest millionth (none of the amounts requested is at a
\* tie); the result is in millionths
feeAmount(numAmount) ==
  LET d == SubMicro * FEE_RATE
  IN (numAmount \div d) + (IF 2 * (numAmount % d) >= d THEN 1 ELSE 0)

\* TipStart without the lookup of the post named by the request
TipStartNoPostCheck(p) ==
  /\ req[p].pc = "idle"
  /\ \E rq \in TipRequests :
       LET agent == rq.agent
           post_id == rq.post
           amount == rq.amount
           recipient == findByName(rq.name)
           r == [Idle EXCEPT !.kind = "tip", !.agent = agent,
                             !.name = rq.name, !.sig = rq.sig,
                             !.post = post_id, !.amount = amount]
       IN req' = [req EXCEPT ![p] =
            IF amount <= 0
            THEN Fail(r, BadRequestError("amount must be a positive number"))
            ELSE IF recipient = Null
            THEN Fail(r, NotFoundError("Recipient agent"))
            ELSE IF recipient = agent
            THEN Fail([r EXCEPT !.target = recipient],
                      BadRequestError("Cannot tip yourself"))
            ELSE [r EXCEPT !.target = recipient, !.fee = feeAmount(amount),
                           !.pc = "tip_check"]]
  /\ UNCHANGED <<tables, agentService, call, voting, limiter>>

\* routes/tips.js lines 22-51: validation, recipient and post lookups, fee
TipStart(p) ==
  /\ req[p].pc = "idle"
  /\ \E rq \in TipRequests :
       LET agent == rq.agent
           post_id == rq.post
           amount == rq.amount
           recipient == findByName(rq.name)
           r == [Idle EXCEPT !.kind = "tip", !.agent = agent,
                             !.name = rq.name, !.sig = rq.sig,
                             !.post = post_id, !.amount = amount]
       IN req' = [req EXCEPT ![p] =
            IF amount <= 0
            THEN Fail(r, BadRequestError("amount must be a positive number"))
            ELSE IF recipient = Null
            THEN Fail(r, NotFoundError("Recipient agent"))
            ELSE IF recipient = agent
            THEN Fail([r EXCEPT !.target = recipient],
                      BadRequestError("Cannot tip yourself"))
            ELSE IF post_id # "" /\ post_id \notin Posts
            THEN Fail([r EXCEPT !.target = recipient], NotFoundError("Post"))
            ELSE [r EXCEPT !.target = recipient, !.fee = feeAmount(amount),
                           !.pc = "tip_check"]]
  /\ UNCHANGED <<tables, agentService, call, voting, limiter>>

\* recordTipCheck with the duplicate check left out
recordTipCheckSkipped(p) ==
  /\ req[p].pc = "tip_check"
  /\ req' = [req EXCEPT ![p].pc = "tip_verify"]
  /\ UNCHANGED <<tables, agentService, call, voting, limiter>>

\* recordTip lines 40-42: SELECT id FROM tips WHERE tx_signature = $1
recordTipCheck(p) ==
  /\ req[p].pc = "tip_check"
  /\ req' = [req EXCEPT ![p] =
       IF \E t \in tips : t.tx_signature = req[p].sig
       THEN Fail(req[p], BadRequestError("This transaction has already been recorded"))
       ELSE [req[p] EXCEPT !.pc = "tip_verify"]]
  /\ UNCHANGED <<tables, agentService, call, voting, limiter>>

\* verifyTransaction with the test of tx.meta.err left out
verifyTransactionIgnoringErr(tx) ==
  IF tx.st = Throws THEN BadRequestError("Failed to verify transaction")
  ELSE IF tx.st = Null THEN BadRequestError("Transaction not found on-chain")
  ELSE [type |-> "ok", message |-> "", statusCode |-> 0, code |-> ""]

\* TipService.verifyTransaction(txSignature): "ok" or the error thrown
verifyTransaction(tx) ==
  IF tx.st = Throws THEN BadRequestError("Failed to verify transaction")
  ELSE IF tx.st = Null THEN BadRequestError("Transaction not found on-chain")
  ELSE IF tx.err THEN BadRequestError("Transaction failed on-chain")
  ELSE [type |-> "ok", message |-> "", statusCode |-> 0, code |-> ""]

\* recordTip lines 44-45
recordTipVerify(p) ==
  /\ req[p].pc = "tip_verify"
  /\ \E up \in BOOLEAN :
       LET v == verifyTransaction(getTransaction(req[p].sig, up))
       IN req' = [req EXCEPT ![p] =
            IF v.type = "ok" THEN [req[p] EXCEPT !.pc = "tip_insert"]
            ELSE Fail(req[p], v)]
  /\ UNCHANGED <<tables, agentService, call, voting, limiter>>

\* a row of tips: amount and fee_amount are NUMERIC(20, 6) columns
Tip(r) ==
  [tipper_id |-> r.agent, recipient_id |-> r.target, post_id |-> r.post,
   amount |-> NUMERIC_20_6(r.amount, SubMicro),
   fee_amount |-> NUMERIC_20_6(r.fee, 1), tx_signature |-> r.sig]

\* recordTipInsert into a table whose tx_signature is not UNIQUE
recordTipInsertNotUnique(p) ==
  /\ req[p].pc = "tip_insert"
  /\ tips' = tips \cup {Tip(req[p])}
  /\ req' = [req EXCEPT ![p].pc = "tip_update"]
  /\ UNCHANGED <<subscription_transactions, agent_subscriptions,
                 subscriber_count, tip_count, tip_volume, agentService, call, voting, limiter>>

\* recordTip lines 47-53: INSERT INTO tips (tx_signature is UNIQUE)
recordTipInsert(p) ==
  /\ req[p].pc = "tip_insert"
  /\ IF \E t \in tips : t.tx_signature = req[p].sig
     THEN /\ req' = [req EXCEPT ![p] = Fail(req[p], PgError("23505"))]
          /\ UNCHANGED tips
     ELSE /\ tips' = tips \cup {Tip(req[p])}
          /\ req' = [req EXCEPT ![p].pc = "tip_update"]
  /\ UNCHANGED <<subscription_transactions, agent_subscriptions,
                 subscriber_count, tip_count, tip_volume, agentService, call, voting, limiter>>

\* recordTipUpdate with the UPDATE keyed by the tipper instead of the recipient
recordTipUpdateOfTipper(p) ==
  /\ req[p].pc = "tip_update"
  /\ tip_count' = [tip_count EXCEPT ![req[p].agent] = @ + 1]
  /\ tip_volume' = [tip_volume EXCEPT ![req[p].agent] =
                      @ + NUMERIC_20_6(req[p].amount, SubMicro)]
  /\ req' = [req EXCEPT ![p] = Respond(req[p], 201)]
  /\ UNCHANGED <<tips, subscription_transactions, agent_subscriptions,
                 subscriber_count, agentService, call, voting, limiter>>

\* recordTip lines 55-61: UPDATE agents SET tip_count, tip_volume; return tip
\* (tip_volume is NUMERIC(20, 6): the sum of the old value, a whole number of
\* millionths, and the amount is rounded to the nearest millionth)
recordTipUpdate(p) ==
  /\ req[p].pc = "tip_update"
  /\ tip_count' = [tip_count EXCEPT ![req[p].target] = @ + 1]
  /\ tip_volume' = [tip_volume EXCEPT ![req[p].target] =
                      @ + NUMERIC_20_6(req[p].amount, SubMicro)]
  /\ req' = [req EXCEPT ![p] = Respond(req[p], 201)]
  /\ UNCHANGED <<tips, subscription_transactions, agent_subscriptions,
                 subscriber_count, agentService, call, voting, limiter>>

(***************************************************************************)
(* GET /posts/:id                                                          *)
(***************************************************************************)
\* the rows of posts: post1 and post2 are paid posts of a2 and of a3, post3
\* is a free post of a2
posts(id) ==
  CASE id = "post1" -> [author_id |-> "a2", paid |-> TRUE,
                        content |-> "content1", url |-> "url1"]
    [] id = "post2" -> [author_id |-> "a3", paid |-> TRUE,
                        content |-> "content2", url |-> "url2"]
    [] OTHER        -> [author_id |-> "a2", paid |-> FALSE,
                        content |-> "content3", url |-> "url3"]

\* findById with no lookup of the requester's subscription
findByIdNoSubscriptionCheck(id, requesterId) ==
  IF id \notin Posts THEN [st |-> Throws, post |-> NoData]
  ELSE LET post == posts(id)
       IN IF post.paid /\ requesterId = Null
          THEN [st |-> "ok", post |-> PostData(Null, Null, TRUE)]
          ELSE [st |-> "ok", post |-> PostData(post.content, post.url, FALSE)]

\* PostService.findById(id, requesterId): st = "throws" for NotFoundError,
\* otherwise the post returned; requesterId is "null" for no requester
findById(id, requesterId) ==
  IF id \notin Posts THEN [st |-> Throws, post |-> NoData]
  ELSE LET post == posts(id)
           sub == <<requesterId, post.author_id>> \in agent_subscriptions
       IN IF post.paid /\ requesterId # Null /\ requesterId # post.author_id
          THEN IF ~sub
               THEN [st |-> "ok", post |-> PostData(Null, Null, TRUE)]
               ELSE [st |-> "ok", post |-> PostData(post.content, post.url, FALSE)]
          ELSE IF post.paid /\ requesterId = Null
          THEN [st |-> "ok", post |-> PostData(Null, Null, TRUE)]
          ELSE [st |-> "ok", post |-> PostData(post.content, post.url, FALSE)]

\* the GET requests that may arrive, <<id, requester>>: post1 asked for by a
\* subscriber, by its author and by nobody, post2 by a1 who never subscribed
\* to a3, the free post, and a post that does not exist
PostGets ==
  {<<"post1", "a1">>, <<"post1", "a3">>, <<"post1", "a2">>, <<"post1", Null>>,
   <<"post2", "a1">>, <<"post3", Null>>, <<"ghost", "a1">>}

\* router.get('/:id'): the post rows are never changed here, so the call is
\* one step, taken when agent_subscriptions is read
PostGet(p) ==
  /\ req[p].pc = "idle"
  /\ \E g \in PostGets :
       LET r == [Idle EXCEPT !.kind = "get", !.post = g[1], !.agent = g[2]]
           found == findById(g[1], g[2])
       IN req' = [req EXCEPT ![p] =
            IF found.st = Throws THEN Fail(r, NotFoundError("Post"))
            ELSE Respond([r EXCEPT !.data = found.post], 200)]
  /\ UNCHANGED <<tables, agentService, call, voting, limiter>>

(***************************************************************************)
(* VoteService.vote on a post.  A votes row is (id, agent_id, target_id,   *)
(* value); the id of a row is the slot of the call that inserted it (every *)
(* call inserts at most one row).  Each awaited statement is one step.     *)
(***************************************************************************)
\* the vote calls that may arrive: a1 up or down and a3 up on post1 (a post
\* of a2), a2 on its own post, and a1 on a post that does not exist
VoteRequests ==
  {[agentId |-> "a1", targetId |-> "post1", value |-> 1],
   [agentId |-> "a1", targetId |-> "post1", value |-> -1],
   [agentId |-> "a3", targetId |-> "post1", value |-> 1],
   [agentId |-> "a2", targetId |-> "post1", value |-> 1],
   [agentId |-> "a1", targetId |-> "ghost", value |-> 1]}

\* no row: what queryOne gives when the SELECT finds nothing
NoRow == [id |-> 0, value |-> 0]

NoVote ==
  [pc |-> "idle", agentId |-> "", targetId |-> "", value |-> 0,
   author_id |-> "", existing |-> NoRow, scoreDelta |-> 0, karmaDelta |-> 0,
   action |-> "", status |-> 0, error |-> "", code |-> ""]

InitVoting ==
  /\ votes = {}
  /\ score = [id \in Posts |-> 0]
  /\ karma = [a \in Agents |-> 0]
  /\ vote = [p \in Procs |-> NoVote]

\* lines 29-30: getTarget (SELECT id, author_id FROM posts) and the check of
\* the author
voteGetTarget(p) ==
  /\ vote[p].pc = "idle"
  /\ \E rq \in VoteRequests :
       LET v == [NoVote EXCEPT !.agentId = rq.agentId,
                               !.targetId = rq.targetId, !.value = rq.value]
       IN vote' = [vote EXCEPT ![p] =
            IF rq.targetId \notin Posts THEN Fail(v, NotFoundError("Post"))
            ELSE IF posts(rq.targetId).author_id = rq.agentId
            THEN Fail(v, BadRequestError("Cannot vote on your own content"))
            ELSE [v EXCEPT !.author_id = posts(rq.targetId).author_id,
                           !.pc = "select"]]
  /\ UNCHANGED <<tables, req, agentService, call, votes, score, karma, limiter>>

\* lines 32-35: SELECT id, value FROM votes for the agent and the target
voteSelect(p) ==
  /\ vote[p].pc = "select"
  /\ LET found == {r \in votes : r.agent_id = vote[p].agentId
                                 /\ r.target_id = vote[p].targetId}
         existing == IF found = {} THEN NoRow
                     ELSE LET r == CHOOSE r \in found : TRUE
                          IN [id |-> r.id, value |-> r.value]
     IN vote' = [vote EXCEPT ![p] = [@ EXCEPT !.existing = existing, !.pc = "write"]]
  /\ UNCHANGED <<tables, req, agentService, call, votes, score, karma, limiter>>

\* lines 39-59: DELETE or UPDATE of the row selected (by its id), or INSERT of
\* a new row, which UNIQUE(agent_id, target_id, target_type) may reject
voteWrite(p) ==
  /\ vote[p].pc = "write"
  /\ LET v == vote[p]
     IN IF v.existing # NoRow
        THEN IF v.existing.value = v.value
             THEN /\ votes' = {r \in votes : r.id # v.existing.id}
                  /\ vote' = [vote EXCEPT ![p] =
                       [v EXCEPT !.action = "removed", !.scoreDelta = -v.value,
                                 !.karmaDelta = -v.value, !.pc = "score"]]
             ELSE /\ votes' = {IF r.id = v.existing.id
                               THEN [r EXCEPT !.value = v.value] ELSE r : r \in votes}
                  /\ vote' = [vote EXCEPT ![p] =
                       [v EXCEPT !.action = "changed", !.scoreDelta = v.value * 2,
                                 !.karmaDelta = v.value * 2, !.pc = "score"]]
        ELSE IF \E r \in votes : r.agent_id = v.agentId /\ r.target_id = v.targetId
        THEN /\ vote' = [vote EXCEPT ![p] = Fail(v, PgError("23505"))]
             /\ UNCHANGED votes
        ELSE /\ votes' = votes \cup {[id |-> p, agent_id |-> v.agentId,
                                      target_id |-> v.targetId, value |-> v.value]}
             /\ vote' = [vote EXCEPT ![p] =
                  [v EXCEPT !.action = IF v.value = 1 THEN "upvoted" ELSE "downvoted",
                            !.scoreDelta = v.value, !.karmaDelta = v.value,
                            !.pc = "score"]]
  /\ UNCHANGED <<tables, req, agentService, call, score, karma, limiter>>

\* line 61, PostService.updateScore: UPDATE posts SET score = score + $2
updateScore(p) ==
  /\ vote[p].pc = "score"
  /\ score' = [score EXCEPT ![vote[p].targetId] = @ + vote[p].scoreDelta]
  /\ vote' = [vote EXCEPT ![p].pc = "karma"]
  /\ UNCHANGED <<tables, req, agentService, call, votes, karma, limiter>>

\* lines 64-66, AgentService.updateKarma, then return { success, action }
updateKarma(p) ==
  /\ vote[p].pc = "karma"
  /\ karma' = [karma EXCEPT ![vote[p].author_id] = @ + vote[p].karmaDelta]
  /\ vote' = [vote EXCEPT ![p] = Respond(vote[p], 200)]
  /\ UNCHANGED <<tables, req, agentService, call, votes, score, limiter>>

VoteNext ==
  \E p \in Procs :
    \/ voteGetTarget(p)
    \/ voteSelect(p)
    \/ voteWrite(p)
    \/ updateScore(p)
    \/ updateKarma(p)

(***************************************************************************)
(* The rate limiter.  Time is counted in ticks, Second ticks to a second   *)
(* (the code counts milliseconds); an entry of storage is its timestamp.   *)
(***************************************************************************)
\* ticks per second
Second == 2
\* the last tick of the clock
MaxNow == 8

\* config.rateLimits, scaled down: posts is the limit of one request per
\* window, comments the limit whose window is the hour kept by the cleanup
rateLimits(limitType) ==
  IF limitType = "posts" THEN [max |-> 1, window |-> 1]
  ELSE [max |-> 2, window |-> 2]

\* the age, in seconds, beyond which the cleanup timer drops an entry (3600000
\* ms in the code, the window of the comments limit)
Hour == rateLimits("comments").window

\* getKey(req, limitType): the limit type and the caller's token
getKey(identifier, limitType) == <<"rl", limitType, identifier>>

\* the rate-limited requests that may arrive
LimitRequests ==
  {getKey("a1", "posts"), getKey("a1", "comments"), getKey("a3", "comments")}

NoLimit ==
  [pc |-> "idle", key |-> <<>>, at |-> 0, allowed |-> FALSE, remaining |-> 0,
   limit |-> 0, retryAfter |-> 0]

InitLimiter ==
  /\ storage = [key \in LimitRequests |-> <<>>]
  /\ now = 0
  /\ limited = [p \in Procs |-> NoLimit]

\* entries.filter(e => e.timestamp >= bound)
filter(entries, bound) == SelectSeq(entries, LAMBDA e : e >= bound)

\* Math.min(...entries.map(e => e.timestamp))
RECURSIVE min(_)
min(entries) ==
  IF Len(entries) = 1 THEN Head(entries)
  ELSE LET m == min(Tail(entries))
       IN IF Head(entries) < m THEN Head(entries) ELSE m

\* Math.ceil(x / 1000), x >= 0 in ticks
ceil(x) == (x + Second - 1) \div Second

\* checkLimit counting a key as within its limit with max entries in the
\* window (<= in place of <)
checkLimitInclusive(key, limit) ==
  LET windowStart == now - limit.window * Second
      entries == filter(storage[key], windowStart)
      allowed == Len(entries) <= limit.max
      left == limit.max - Len(entries) - (IF allowed THEN 1 ELSE 0)
  IN [allowed |-> allowed,
      remaining |-> IF left > 0 THEN left ELSE 0,
      limit |-> limit.max,
      retryAfter |-> IF Len(entries) > 0 /\ ~allowed
                     THEN ceil(min(entries) + limit.window * Second - now)
                     ELSE 0,
      entries |-> IF allowed THEN Append(entries, now) ELSE storage[key]]

\* checkLimit(key, limit): the object returned, and in entries what
\* storage holds for the key afterwards
checkLimit(key, limit) ==
  LET windowStart == now - limit.window * Second
      entries == filter(storage[key], windowStart)
      allowed == Len(entries) < limit.max
      left == limit.max - Len(entries) - (IF allowed THEN 1 ELSE 0)
  IN [allowed |-> allowed,
      remaining |-> IF left > 0 THEN left ELSE 0,
      limit |-> limit.max,
      retryAfter |-> IF Len(entries) > 0 /\ ~allowed
                     THEN ceil(min(entries) + limit.window * Second - now)
                     ELSE 0,
      entries |-> IF allowed THEN Append(entries, now) ELSE storage[key]]

\* the middleware returned by rateLimit(limitType): one synchronous step
rateLimit(p) ==
  /\ limited[p].pc = "idle"
  /\ \E key \in LimitRequests :
       LET result == checkLimit(key, rateLimits(key[2]))
       IN /\ storage' = [storage EXCEPT ![key] = result.entries]
          /\ limited' = [limited EXCEPT ![p] =
               [pc |-> "done", key |-> key, at |-> now,
                allowed |-> result.allowed, remaining |-> result.remaining,
                limit |-> result.limit, retryAfter |-> result.retryAfter]]
  /\ UNCHANGED <<tables, req, agentService, call, voting, now>>

\* the callback of setInterval: entries older than an hour are dropped (a
\* key left with no entry is deleted, which reads as the empty list)
cleanup ==
  /\ storage' = [key \in DOMAIN storage |->
                   filter(storage[key], now - Hour * Second)]
  /\ UNCHANGED <<tables, req, agentService, call, voting, now, limited>>

\* time passes
Tick ==
  /\ now < MaxNow
  /\ now' = now + 1
  /\ UNCHANGED <<tables, req, agentService, call, voting, storage, limited>>

LimiterNext == (\E p \in Procs : rateLimit(p)) \/ cleanup \/ Tick

(***************************************************************************)
(* The service: requests of every kind, served concurrently.               *)
(***************************************************************************)
Init ==
  /\ tips = {}
  /\ subscription_transactions = {}
  /\ agent_subscriptions = {}
  /\ subscriber_count = [a \in Agents |-> 0]
  /\ tip_count = [a \in Agents |-> 0]
  /\ tip_volume = [a \in Agents |-> 0]
  /\ req = [p \in Procs |-> Idle]
  /\ agentService \in {OnConflict, CheckThenInsert}
  /\ call = NoCall
  /\ InitVoting
  /\ InitLimiter

SubscribeNext ==
  \E p \in Procs :
    \/ SubscribeStart(p)
    \/ SubscribeVerify(p)
    \/ subscribe(p)
    \/ subscribeSelect(p)
    \/ subscribeTransaction(p)
    \/ SubscribeRecord(p)
    \/ UnsubscribeStart(p)
    \/ unsubscribeSelect(p)
    \/ unsubscribeDelete(p)
    \/ unsubscribeUpdate(p)
    \/ unsubscribeDeleteReturning(p)
    \/ unsubscribeDecrement(p)

TipNext ==
  \E p \in Procs :
    \/ TipStart(p)
    \/ recordTipCheck(p)
    \/ recordTipVerify(p)
    \/ recordTipInsert(p)
    \/ recordTipUpdate(p)

Next == SubscribeNext \/ TipNext

Spec == Init /\ [][Next]_vars

\* the subscription requests alone
SpecSubscribe == Init /\ [][SubscribeNext]_vars

\* the tip requests alone (they never reach AgentService.subscribe)
InitTip == Init /\ agentService = OnConflict

SpecTip == InitTip /\ [][TipNext]_vars

\* a statement of recordTip is rejected by the database (connection lost,
\* statement cancelled): queryOne throws, nothing of the statement is
\* applied, and errorHandler answers for the pg error
recordTipQueryFails(p) ==
  /\ req[p].pc \in {"tip_check", "tip_insert", "tip_update"}
  /\ req' = [req EXCEPT ![p] = Fail(req[p], PgError("57014"))]
  /\ UNCHANGED <<tables, agentService, call, voting, limiter>>

TipFaultNext == TipNext \/ \E p \in Procs : recordTipQueryFails(p)

\* the tip requests served by a database whose statements may fail
SpecTipFaults == InitTip /\ [][TipFaultNext]_vars

\* the state after a1 (with s1) and a3 (with s2) have subscribed to a2
InitSubscribed ==
  LET done(agent, sig) ==
        [agent |-> agent, target |-> "a2", sig |-> sig,
         verification |->
           verifyCreamTransfer(getTransaction(sig, TRUE), solana_address("a2"),
                               subscription_price("a2"))]
  IN /\ tips = {}
     /\ subscription_transactions =
          {SubscriptionTransaction(done("a1", "s1")),
           SubscriptionTransaction(done("a3", "s2"))}
     /\ agent_subscriptions = {<<"a1", "a2">>, <<"a3", "a2">>}
     /\ subscriber_count = [a \in Agents |-> IF a = "a2" THEN 2 ELSE 0]
     /\ tip_count = [a \in Agents |-> 0]
     /\ tip_volume = [a \in Agents |-> 0]
     /\ req = [p \in Procs |-> Idle]
     /\ agentService \in {OnConflict, CheckThenInsert}
     /\ call = NoCall
     /\ InitVoting
     /\ InitLimiter

\* subscription requests arriving when a2 has two subscribers
SpecSubscribed == InitSubscribed /\ [][SubscribeNext]_vars

PostNext == SubscribeNext \/ \E p \in Procs : PostGet(p)

\* posts read while subscriptions are made and ended
SpecPosts == InitSubscribed /\ [][PostNext]_vars

\* votes cast concurrently
SpecVote == InitTip /\ [][VoteNext]_vars

\* rate-limited requests arriving as time passes
SpecLimiter == InitTip /\ [][LimiterNext]_vars


(***************************************************************************)
(* verifyCreamTransfer called on generated transactions.                   *)
(***************************************************************************)
\* base units moved by a generated instruction: a tenth (1/UiScale) of the
\* price, or the price
Raws == {Price, Price * UiScale}

\* the instructions of generated transactions: transfers of either kind to
\* each destination, with the source varied on the destination that is
\* a2's $CREAM account, and instructions that are no token transfer
Instructions ==
  {Ix("spl-token", "transfer", "T1c", destination, raw, "", FALSE) :
      destination \in {"T2c", "T2o", "T3c", "down"}, raw \in Raws}
  \cup {Ix("spl-token", "transfer", source, "T2c", raw, "", FALSE) :
      source \in {"down", "gone"}, raw \in Raws}
  \cup {Ix("spl-token", "transfer", "", "T2c", Price * UiScale, "", FALSE),
        Ix("spl-token", "transfer", "T1c", "bad", Price * UiScale, "", FALSE),
        Ix("spl-token", "mintTo", "T1c", "T2c", Price * UiScale, creamTokenMint, TRUE),
        Ix("system", "transfer", "T1c", "T2c", Price * UiScale, "", FALSE)}
  \cup {Ix("spl-token", "transferChecked", "T1c", destination, raw, m[1], m[2]) :
      destination \in {"T2c", "T2o", "T3c"}, raw \in Raws,
      m \in {<<creamTokenMint, TRUE>>, <<creamTokenMint, FALSE>>, <<OtherMint, TRUE>>}}
  \cup {Ix("spl-token", "transferChecked", "down", "T2c", raw, creamTokenMint, TRUE) :
      raw \in Raws}

\* the sequences over S of length at most n
RECURSIVE SeqsUpTo(_, _)
SeqsUpTo(S, n) ==
  IF n = 0 THEN {<<>>}
  ELSE LET shorter == SeqsUpTo(S, n - 1)
       IN shorter \cup {Append(q, x) : q \in shorter, x \in S}

\* meta.innerInstructions holding the instructions of inner: the first in a
\* group of its own, the others in a second group
Groups(inner) ==
  IF inner = <<>> THEN <<>>
  ELSE IF Len(inner) = 1 THEN <<inner>>
  ELSE << <<Head(inner)>>, Tail(inner) >>

\* a generated answer of getParsedTransaction: the instructions of flat,
\* the first j of them outer and the others inner
ParsedTransaction(st, err, flat, j) ==
  Transaction(st, err, SubSeq(flat, 1, j), Groups(SubSeq(flat, j + 1, Len(flat))))

InitVerify ==
  /\ tips = {}
  /\ subscription_transactions = {}
  /\ agent_subscriptions = {}
  /\ subscriber_count = [a \in Agents |-> 0]
  /\ tip_count = [a \in Agents |-> 0]
  /\ tip_volume = [a \in Agents |-> 0]
  /\ req = [p \in Procs |-> Idle]
  /\ agentService = OnConflict
  /\ InitVoting
  /\ InitLimiter
  /\ \E st \in {Throws, Null, "ok"}, err \in BOOLEAN,
        flat \in SeqsUpTo(Instructions, MaxIx), j \in 0 .. MaxIx :
       /\ j <= Len(flat)
       /\ st # "ok" => ~err /\ flat = <<>>
       /\ call = [pc |-> "called", tx |-> ParsedTransaction(st, err, flat, j),
                  recipientAddress |-> solana_address("a2"),
                  expectedAmount |-> subscription_price("a2"),
                  result |-> NoVerification]

\* the call runs to its return
VerifyReturn ==
  /\ call.pc = "called"
  /\ call' = [call EXCEPT !.pc = "returned",
                !.result = verifyCreamTransfer(call.tx, call.recipientAddress,
                                               call.expectedAmount)]
  /\ UNCHANGED <<tables, req, agentService, voting, limiter>>

SpecVerify == InitVerify /\ [][VerifyReturn]_vars

\* the node never answers getParsedTransaction: the promise awaited at line
\* 28 stays pending, and no timer or deadline of the call ends the wait
VerifyNoAnswer ==
  /\ call.pc = "called"
  /\ call' = [call EXCEPT !.pc = "waiting"]
  /\ UNCHANGED <<tables, req, agentService, voting, limiter>>

VerifyDeadlineNext == VerifyReturn \/ VerifyNoAnswer

\* a call to a node that may never answer; the event loop resumes the call
\* as soon as the node has answered
SpecVerifyDeadline ==
  InitVerify /\ [][VerifyDeadlineNext]_vars /\ WF_vars(VerifyDeadlineNext)


(***************************************************************************)
(* Properties of verifyCreamTransfer (checked under SpecVerify).           *)
(***************************************************************************)
\* an instruction that transfers tokens
IsTokenTransfer(ix) ==
  ix.program = "spl-token" /\ ix.type \in {"transfer", "transferChecked"}

\* the token a transfer moves: named by a transferChecked instruction, that
\* of the destination account for a plain transfer
TokenType(ix) ==
  IF ix.type = "transferChecked" THEN ix.mint
  ELSE getParsedAccountInfo(ix.destination).mint

\* the destination token account of ix is owned by owner
DestinationOwnedBy(ix, owner) ==
  /\ PublicKeyOk(ix.destination)
  /\ getParsedAccountInfo(ix.destination).st = "ok"
  /\ getParsedAccountInfo(ix.destination).owner = owner

\* the tables are as created
NothingPersisted ==
  /\ tips = {} /\ subscription_transactions = {} /\ agent_subscriptions = {}
  /\ \A a \in Agents :
       subscriber_count[a] = 0 /\ tip_count[a] = 0 /\ tip_volume[a] = 0

\* C8: no transfer instruction that moves less than expectedAmount makes the
\* result valid, the amount moved and expectedAmount both taken in base units
\* of the token: the instruction that qualified moves at least
\* expectedAmount, and a transaction whose token transfers all move less is
\* not valid.
C8_AmountGating ==
  call.pc = "returned" =>
    LET all == allInstructions(call.tx)
    IN /\ call.result.valid => all[call.result.hit].raw >= call.expectedAmount
       /\ (\A i \in 1 .. Len(all) :
             IsTokenTransfer(all[i]) => all[i].raw < call.expectedAmount)
          => ~call.result.valid

\* C9: a valid result implies that the flat instruction sequence holds a token
\* transfer whose destination account is owned by the claimed recipient and
\* whose token is the expected mint.
C9_RecipientAndTokenGating ==
  (call.pc = "returned" /\ call.result.valid) =>
    \E i \in 1 .. Len(allInstructions(call.tx)) :
      LET ix == allInstructions(call.tx)[i]
      IN /\ IsTokenTransfer(ix)
         /\ DestinationOwnedBy(ix, call.recipientAddress)
         /\ TokenType(ix) = creamTokenMint

\* a valid result although an earlier transfer of enough tokens went to an
\* account of somebody else
C9_Witness ==
  /\ call.pc = "returned" /\ call.result.valid /\ call.result.hit = 2
  /\ LET ix == allInstructions(call.tx)[1]
     IN /\ IsTokenTransfer(ix)
        /\ DestinationOwnedBy(ix, solana_address("a3"))
        /\ ix.raw >= call.expectedAmount

\* C10: for a signature with no transaction the result is not valid with the
\* not-found reason, for a transaction that failed on-chain it is not valid
\* with the failed-on-chain reason; in both cases no instruction is scanned,
\* no account is fetched and nothing is persisted.
C10_NotFoundOrFailed ==
  (call.pc = "returned" /\ (call.tx.st = Null \/ (call.tx.st = "ok" /\ call.tx.err))) =>
    /\ ~call.result.valid
    /\ call.result.error = IF call.tx.st = Null THEN "Transaction not found"
                           ELSE "Transaction failed on-chain"
    /\ call.result.scanned = 0
    /\ call.result.fetched = <<>>
    /\ NothingPersisted

\* a failed transaction that holds a transfer which qualifies otherwise
C10_Witness ==
  /\ call.pc = "returned" /\ call.tx.st = "ok" /\ call.tx.err
  /\ scan(allInstructions(call.tx), 1, call.recipientAddress,
          call.expectedAmount, <<>>).valid


\* the amount the scan reads from a transfer instruction
amountOf(ix) ==
  IF ix.type = "transfer" THEN transferAmount(ix) ELSE transferCheckedAmount(ix)

\* the instruction ix qualifies: the conditions of lines 54 and 60-65 for a
\* transfer, of lines 79 and 84 for a transferChecked
Qualifies(ix, recipientAddress, expectedAmount) ==
  /\ IsTokenTransfer(ix)
  /\ ix.type = "transfer" => (ix.destination # "" /\ ix.source # "")
  /\ DestinationOwnedBy(ix, recipientAddress)
  /\ TokenType(ix) = creamTokenMint
  /\ amountOf(ix) >= expectedAmount

\* resolving the owner of the source account of ix throws
SourceFetchThrows(ix) ==
  ~PublicKeyOk(ix.source) \/ getParsedAccountInfo(ix.source).st = Throws

\* the owner of the source account of ix, "unknown" if it does not resolve
SenderOf(ix) ==
  IF SourceFetchThrows(ix) THEN "unknown"
  ELSE sourceOwner(getParsedAccountInfo(ix.source))

\* the call has returned from the scan of a transaction that was found and
\* did not fail
Scanned == call.pc = "returned" /\ call.tx.st = "ok" /\ ~call.tx.err

\* the positions of the flat sequence (outer instructions, then the inner
\* ones group by group) at which an instruction qualifies
QualifyingPositions ==
  LET all == call.tx.instructions \o flatMap(call.tx.innerInstructions)
  IN {i \in 1 .. Len(all) :
        Qualifies(all[i], call.recipientAddress, call.expectedAmount)}

\* C11: a valid result is that of the first qualifying instruction of the flat
\* sequence, outer instructions before inner ones: it reports the amount and
\* the sender of that instruction, and no instruction after it is examined
\* (none is scanned, no account of a later instruction is fetched).
C11_FirstQualifyingInOrder ==
  (Scanned /\ call.result.valid) =>
    LET all == call.tx.instructions \o flatMap(call.tx.innerInstructions)
        hit == call.result.hit
    IN /\ hit \in QualifyingPositions
       /\ \A i \in QualifyingPositions : hit <= i
       /\ (\E i \in QualifyingPositions : i <= Len(call.tx.instructions))
            => hit <= Len(call.tx.instructions)
       /\ call.result.amount = amountOf(all[hit])
       /\ call.result.sender = SenderOf(all[hit])
       /\ call.result.scanned = hit
       /\ \A k \in 1 .. Len(call.result.fetched) :
            \E i \in 1 .. hit :
              call.result.fetched[k] \in {all[i].destination, all[i].source}

\* C12: the first instruction that qualifies makes the result valid whether or
\* not the owner of its source account can be resolved; when it cannot, the
\* sender reported is "unknown".
C12_SourceResolutionBestEffort ==
  Scanned =>
    LET all == allInstructions(call.tx)
    IN \A i \in QualifyingPositions :
         (\A k \in QualifyingPositions : i <= k) =>
           /\ call.result.valid
           /\ call.result.hit = i
           /\ (SourceFetchThrows(all[i])
                 \/ getParsedAccountInfo(all[i].source).st = Null)
                => call.result.sender = "unknown"

\* C13: an error raised while the accounts of one candidate are resolved is
\* swallowed for that candidate: every instruction is still scanned, an
\* instruction that qualifies and whose source fetch does not throw makes the
\* result valid, and a result that is not valid carries the no-matching-
\* transfer reason.
C13_CandidateErrorsSwallowed ==
  Scanned =>
    LET all == allInstructions(call.tx)
    IN /\ (\E i \in QualifyingPositions : ~SourceFetchThrows(all[i]))
            => call.result.valid
       /\ ~call.result.valid =>
            /\ call.result.error = "No matching $CREAM transfer found in transaction"
            /\ call.result.scanned = Len(all)

\* the fetch of the first candidate's destination account threw, and the
\* second instruction made the result valid
C13_Witness ==
  /\ Scanned /\ call.result.valid /\ call.result.hit = 2
  /\ LET ix == allInstructions(call.tx)[1]
     IN /\ IsTokenTransfer(ix)
        /\ getParsedAccountInfo(ix.destination).st = Throws
        /\ Head(call.result.fetched) = ix.destination


(***************************************************************************)
(* Properties of the tip requests (checked under SpecTip).                 *)
(***************************************************************************)
\* the sum of f over the finite set S
RECURSIVE Sum(_, _)
Sum(f, S) ==
  IF S = {} THEN 0
  ELSE LET x == CHOOSE y \in S : TRUE IN f[x] + Sum(f, S \ {x})

\* the two answers that report a signature as recorded already: the one of
\* recordTip's own check and the one errorHandler makes of a unique_violation
DuplicateTransaction(r) ==
  /\ r.pc = "done" /\ r.status = 400
  /\ r.error \in {"This transaction has already been recorded", "Duplicate entry"}

\* the request was answered by the route before it called recordTip
RejectedByTipRoute(r) ==
  /\ r.pc = "done"
  /\ r.error \in {"amount must be a positive number", "Recipient agent not found",
                  "Cannot tip yourself", "Post not found"}

\* the recordTip calls that present sig
recordTipCalls(sig) ==
  {p \in Procs : req[p].kind = "tip" /\ req[p].sig = sig /\ ~RejectedByTipRoute(req[p])}

\* all recordTip calls for sig have returned and the node answered each
Settled(sig) ==
  \A p \in recordTipCalls(sig) :
    req[p].pc = "done" /\ req[p].error # "Failed to verify transaction"

TipsOf(a) == {t \in tips : t.recipient_id = a}

\* C1: once all recordTip calls that present a signature found on-chain and
\* not failed have returned, exactly one of them returned the stored tip, all
\* others failed with a duplicate-transaction error, exactly one tips row
\* carries the signature, and the recipient's tip_count and tip_volume count
\* that row once.
C1_ConcurrentTipsOneSuccess ==
  \A sig \in {"s1", "s2"} :
    (recordTipCalls(sig) # {} /\ Settled(sig)) =>
      /\ Cardinality({p \in recordTipCalls(sig) : req[p].status = 201}) = 1
      /\ \A p \in recordTipCalls(sig) :
           req[p].status # 201 => DuplicateTransaction(req[p])
      /\ Cardinality({t \in tips : t.tx_signature = sig}) = 1
      /\ (\A p \in Procs : req[p].pc \in {"idle", "done"}) =>
           \A a \in Agents :
             /\ tip_count[a] = Cardinality(TipsOf(a))
             /\ tip_volume[a] = Sum([t \in TipsOf(a) |-> t.amount], TipsOf(a))

\* every slot made a recordTip call with s1, tippers a1 and a3 among them
C1_Witness ==
  /\ recordTipCalls("s1") = Procs /\ Settled("s1")
  /\ {req[p].agent : p \in Procs} = {"a1", "a3"}

\* C6: a recordTip call that begins when a tips row with its signature exists
\* fails with the duplicate-transaction error and changes no table; the call
\* that stored the row returns it; there is never more than one tips row for
\* a signature.
C6_SecondTipRejected ==
  /\ [](\A sig \in Sigs : Cardinality({t \in tips : t.tx_signature = sig}) <= 1)
  /\ [][\A p \in Procs :
          /\ (/\ req[p].pc = "tip_check"
              /\ req'[p] # req[p]
              /\ \E t \in tips : t.tx_signature = req[p].sig)
             => /\ DuplicateTransaction(req'[p])
                /\ UNCHANGED tables
          /\ (req[p].pc = "tip_update" /\ req'[p] # req[p])
             => /\ req'[p].pc = "done" /\ req'[p].status = 201
                /\ Tip(req[p]) \in tips']_vars

\* the same request was made twice: one got the stored tip, the other was
\* refused by recordTip's own check
C6_Witness ==
  \E p, q \in Procs :
    /\ p # q
    /\ req[p].pc = "done" /\ req[p].status = 201
    /\ req[q].pc = "done"
    /\ req[q].error = "This transaction has already been recorded"
    /\ [req[q] EXCEPT !.status = 201, !.error = "", !.code = ""] = req[p]
    /\ tips = {Tip(req[p])}


(***************************************************************************)
(* Properties of the subscription requests (checked under SpecSubscribe)   *)
(* and of the ledger as a whole (checked under Spec).                      *)
(***************************************************************************)
ProofsOf(sig) == {t \in subscription_transactions : t.tx_id = sig}

\* C2: of the subscribe calls that present one valid signature exactly one
\* subscription_transactions row is kept, and a call that is refused as a
\* duplicate has had no financial effect: it inserted no agent_subscriptions
\* pair and incremented no subscriber_count.
C2_DuplicateLoserHasNoEffect ==
  /\ \A sig \in Sigs : Cardinality(ProofsOf(sig)) <= 1
  /\ \A p \in Procs :
       (req[p].kind = "subscribe" /\ DuplicateTransaction(req[p]))
         => /\ Cardinality(ProofsOf(req[p].sig)) = 1
            /\ req[p].action # "subscribed"

\* the subscribe calls for the pair (s, t) whose transfer was verified
subscribeCalls(s, t) ==
  {p \in Procs : /\ req[p].kind = "subscribe"
                 /\ req[p].agent = s /\ req[p].target = t
                 /\ req[p].verification.valid}

\* C3: when the requests made are subscribe calls with pairwise distinct
\* valid signatures and all have returned, then for every pair (s, t) with N
\* calls: none failed, exactly one reports subscribed and the others
\* already_subscribed, N proofs are stored for the pair, and t's
\* subscriber_count went up by 1 for the pair.
C3_OnePairManySignatures ==
  (/\ \A p \in Procs : req[p].pc \in {"idle", "done"}
   /\ \A p \in Procs : req[p].kind # "unsubscribe"
   /\ \A p, q \in Procs :
        (p # q /\ req[p].kind = "subscribe" /\ req[q].kind = "subscribe")
          => req[p].sig # req[q].sig)
  => \A s, t \in Agents :
       (s # t /\ subscribeCalls(s, t) # {}) =>
         /\ \A p \in subscribeCalls(s, t) : req[p].status = 200
         /\ Cardinality({p \in subscribeCalls(s, t) :
                           req[p].action = "subscribed"}) = 1
         /\ \A p \in subscribeCalls(s, t) :
              req[p].action \in {"subscribed", "already_subscribed"}
         /\ Cardinality({x \in subscription_transactions :
                           x.subscriber_id = s /\ x.target_id = t})
              = Cardinality(subscribeCalls(s, t))
         /\ <<s, t>> \in agent_subscriptions
         /\ subscriber_count[t] =
              Cardinality({x \in agent_subscriptions : x[2] = t})

\* C4: a step of AgentService.subscribe made for a signature that is recorded
\* in subscription_transactions already changes neither agent_subscriptions
\* nor any subscriber_count (the proof is stored before the pair is).
C4_RecordedSignatureHasNoEffect ==
  [][\A p \in Procs :
       (/\ req[p].kind = "subscribe"
        /\ req[p].pc \in {"subscribe", "subscribe_tx"}
        /\ req'[p] # req[p]
        /\ ProofsOf(req[p].sig) # {})
       => UNCHANGED <<agent_subscriptions, subscriber_count>>]_vars

\* C5: no signature is carried by more than one payment record, counting the
\* rows of subscription_transactions and of tips together.
C5_SignatureGloballyUnique ==
  \A sig \in Sigs :
    Cardinality(ProofsOf(sig))
      + Cardinality({t \in tips : t.tx_signature = sig}) <= 1

\* what verifyCreamTransfer answers for the request r when the node answers
Verification(r) ==
  verifyCreamTransfer(getTransaction(r.sig, TRUE), solana_address(r.target),
                      subscription_price(r.target))

\* C7: a pair, a proof or an increment of subscriber_count comes only from a
\* step of a subscribe call whose verifyCreamTransfer(signature, target's
\* wallet, target's price) returned valid in that call; a verification that
\* is not valid is answered with the rejection and changes no table.
C7_OnlyVerifiedSubscriptions ==
  [][/\ (\/ ~(agent_subscriptions' \subseteq agent_subscriptions)
         \/ ~(subscription_transactions' \subseteq subscription_transactions)
         \/ \E a \in Agents : subscriber_count'[a] > subscriber_count[a])
        => \E p \in Procs :
             /\ req[p].kind = "subscribe" /\ req'[p] # req[p]
             /\ req[p].verification.valid
             /\ req[p].verification = Verification(req[p])
     /\ \A p \in Procs :
          (req[p].pc = "verify" /\ req'[p] # req[p]
             /\ ~req'[p].verification.valid)
          => /\ req'[p].pc = "done" /\ req'[p].status = 400
             /\ req'[p].error = "Transaction verification failed"
             /\ UNCHANGED tables]_vars

\* one subscribe call was refused for a transaction that failed on-chain,
\* another went through and stored its proof
C7_Witness ==
  \E p, q \in Procs :
    /\ req[p].kind = "subscribe" /\ req[p].sig = "s3"
    /\ req[p].error = "Transaction verification failed"
    /\ req[p].verification.error = "Transaction failed on-chain"
    /\ req[q].kind = "subscribe" /\ req[q].pc = "done" /\ req[q].status = 200
    /\ SubscriptionTransaction(req[q]) \in subscription_transactions


(***************************************************************************)
(* Properties of self-referential requests, of the counters and of         *)
(* unsubscribe.                                                            *)
(***************************************************************************)
\* the request r names the caller's own account
SelfReferential(r) == r.kind \in {"subscribe", "tip"} /\ findByName(r.name) = r.agent

\* C14: a subscribe or tip request naming the caller's own account ends with
\* the self-referential error whatever the transaction presented (for
\* subscribe: to an account that has set a price), and no pair with
\* subscriber = target, no proof with subscriber = target and no tip with
\* tipper = recipient is ever stored.
C14_SelfReferentialAlwaysRejected ==
  /\ \A p \in Procs :
       (SelfReferential(req[p]) /\ req[p].pc = "done") =>
         \/ req[p].kind = "subscribe" /\ subscription_price(req[p].agent) <= 0
         \/ /\ req[p].status = 400
            /\ req[p].error = IF req[p].kind = "subscribe"
                              THEN "Cannot subscribe to yourself"
                              ELSE "Cannot tip yourself"
  /\ \A x \in agent_subscriptions : x[1] # x[2]
  /\ \A t \in subscription_transactions : t.subscriber_id # t.target_id
  /\ \A t \in tips : t.tipper_id # t.recipient_id

\* no request is being served
Quiescent == \A p \in Procs : req[p].pc \in {"idle", "done"}

\* the agent_subscriptions pairs that target a
SubscribersOf(a) == {x \in agent_subscriptions : x[2] = a}

\* C15: whenever no subscribe or unsubscribe call is in progress, the
\* subscriber_count of every account is the number of agent_subscriptions
\* pairs that target it.
C15_SubscriberCountMatchesPairs ==
  Quiescent =>
    \A a \in Agents : subscriber_count[a] = Cardinality(SubscribersOf(a))

\* the amounts of the tips rows, by row
amounts == [t \in tips |-> t.amount]

\* C16: whenever no recordTip call is in progress, also after calls that
\* failed at a statement, every account's tip_count is the number of tips
\* rows naming it as recipient and its tip_volume the sum of their amounts.
C16_TipCountersMatchRows ==
  Quiescent =>
    \A a \in Agents :
      /\ tip_count[a] = Cardinality({t \in tips : t.recipient_id = a})
      /\ tip_volume[a] = Sum(amounts, {t \in tips : t.recipient_id = a})

\* C17: an unsubscribe call that finds no pair reports not_subscribed with
\* status 200 and changes no table; one that finds the pair goes on to
\* delete it, its DELETE leaves the pair absent, its UPDATE lowers the
\* target's subscriber_count by one but not below zero and touches no other
\* counter, and it reports unsubscribed; subscriber_count is never negative.
C17_Unsubscribe ==
  /\ [](\A a \in Agents : subscriber_count[a] >= 0)
  /\ [][\A p \in Procs :
          (req[p].kind = "unsubscribe" /\ req'[p] # req[p]) =>
            LET r == req[p]
                pair == <<r.agent, r.target>>
            IN /\ (r.pc = "unsubscribe" /\ pair \notin agent_subscriptions) =>
                    /\ req'[p].pc = "done" /\ req'[p].status = 200
                    /\ req'[p].action = "not_subscribed" /\ req'[p].error = ""
                    /\ UNCHANGED tables
               /\ (r.pc = "unsubscribe" /\ pair \in agent_subscriptions) =>
                    /\ req'[p].pc \in {"unsubscribe_delete", "unsubscribe_decrement"}
                    /\ UNCHANGED subscriber_count
               /\ req'[p].action = "not_subscribed" => r.pc = "unsubscribe"
               /\ (\/ r.pc = "unsubscribe_delete"
                   \/ req'[p].pc = "unsubscribe_decrement") =>
                    /\ agent_subscriptions' = agent_subscriptions \ {pair}
                    /\ UNCHANGED subscriber_count
               /\ r.pc \in {"unsubscribe_update", "unsubscribe_decrement"} =>
                    /\ req'[p].pc = "done" /\ req'[p].status = 200
                    /\ req'[p].action = "unsubscribed"
                    /\ subscriber_count'[r.target] =
                         IF subscriber_count[r.target] > 0
                         THEN subscriber_count[r.target] - 1 ELSE 0
                    /\ \A a \in Agents \ {r.target} :
                         subscriber_count'[a] = subscriber_count[a]
                    /\ UNCHANGED agent_subscriptions]_vars

\* of a2's two subscribers one has unsubscribed, and a second call for the
\* same pair was told not_subscribed
C17_Witness ==
  \E p, q \in Procs :
    /\ req[p].kind = "unsubscribe" /\ req[p].pc = "done"
    /\ req[p].action = "unsubscribed"
    /\ req[q].kind = "unsubscribe" /\ req[q].pc = "done"
    /\ req[q].action = "not_subscribed"
    /\ req[q].agent = req[p].agent /\ req[q].target = req[p].target
    /\ <<req[p].agent, req[p].target>> \notin agent_subscriptions
    /\ subscriber_count[req[p].target] = 1

\* C18: no step of an unsubscribe call changes subscription_transactions or
\* tips, and no row of either table is ever removed: a recorded signature
\* stays recorded.
C18_UnsubscribeKeepsProofs ==
  [][/\ \A p \in Procs :
          (req[p].kind = "unsubscribe" /\ req'[p] # req[p])
            => UNCHANGED <<subscription_transactions, tips>>
     /\ subscription_transactions \subseteq subscription_transactions'
     /\ tips \subseteq tips']_vars

\* a subscription was removed while its proof and a tip are on record
C18_Witness ==
  \E p \in Procs :
    /\ req[p].kind = "unsubscribe" /\ req[p].pc = "done"
    /\ req[p].action = "unsubscribed"
    /\ <<req[p].agent, req[p].target>> \notin agent_subscriptions
    /\ \E t \in subscription_transactions :
         t.subscriber_id = req[p].agent /\ t.target_id = req[p].target
    /\ tips # {}

\* C19: a subscribe request to a target whose price is not above zero is
\* answered 400 "This agent has not set a subscription price" by the step
\* that reads the price: the request never reaches the verification, no
\* transaction or account is fetched for it, and no table changes.
C19_NoPriceNoChainAccess ==
  /\ [](\A p \in Procs :
          (/\ req[p].kind = "subscribe" /\ req[p].target # ""
           /\ subscription_price(req[p].target) <= 0) =>
            /\ req[p].pc = "done" /\ req[p].status = 400
            /\ req[p].error = "This agent has not set a subscription price"
            /\ req[p].verification = NoVerification
            /\ req[p].action = "")
  /\ [][\A p \in Procs :
          (/\ req[p].pc = "idle" /\ req'[p].kind = "subscribe"
           /\ req'[p].target # ""
           /\ subscription_price(req'[p].target) <= 0)
          => UNCHANGED <<tables, call>>]_vars

\* a1, which has set no price, was asked for a subscription and refused,
\* while a subscription to a2 went through
C19_Witness ==
  \E p, q \in Procs :
    /\ req[p].kind = "subscribe" /\ req[p].target = "a1"
    /\ req[p].error = "This agent has not set a subscription price"
    /\ req[q].kind = "subscribe" /\ req[q].status = 200

\* the transaction of signature sig exists and did not fail
OnChainNotFailed(sig) ==
  ChainTransaction(sig).st = "ok" /\ ~ChainTransaction(sig).err

\* C20: a tips row is added only by the INSERT of a recordTip call that has
\* passed verifyTransaction, and a call passes it only when the node has
\* answered with a transaction that exists and did not fail; a call whose
\* signature is not found, failed on-chain or could not be fetched is
\* answered 400 and changes no table.
C20_TipOnlyAfterVerification ==
  /\ [](\A p \in Procs :
          (req[p].kind = "tip" /\ (req[p].pc \in {"tip_insert", "tip_update"}
                                     \/ req[p].status = 201))
            => OnChainNotFailed(req[p].sig))
  /\ [](\A t \in tips : OnChainNotFailed(t.tx_signature))
  /\ [][/\ tips' # tips =>
            \E p \in Procs : /\ req[p].pc = "tip_insert"
                             /\ req'[p].pc = "tip_update"
                             /\ tips' = tips \cup {Tip(req[p])}
        /\ \A p \in Procs :
             /\ (req'[p].pc = "tip_insert" /\ req[p].pc # "tip_insert")
                  => req[p].pc = "tip_verify"
             /\ (req[p].pc = "tip_verify" /\ req'[p].pc = "done") =>
                  /\ req'[p].status = 400
                  /\ req'[p].error \in {"Transaction not found on-chain",
                                        "Transaction failed on-chain",
                                        "Failed to verify transaction"}
                  /\ UNCHANGED tables
             /\ (req[p].pc = "tip_verify" /\ req'[p] # req[p]
                   /\ ~OnChainNotFailed(req[p].sig))
                  => req'[p].pc = "done"]_vars

\* one tip is stored, one request was refused for a signature that is not
\* on the chain and one for a transaction that failed
C20_Witness ==
  \E p, q, o \in Procs :
    /\ req[p].kind = "tip" /\ req[p].status = 201 /\ Tip(req[p]) \in tips
    /\ req[q].kind = "tip" /\ req[q].error = "Transaction not found on-chain"
    /\ req[o].kind = "tip" /\ req[o].error = "Transaction failed on-chain"
    /\ tip_count[req[p].target] = 1


(***************************************************************************)
(* Properties of the responses, of the tip amounts and of the post lookup. *)
(***************************************************************************)
\* the request r failed because the node could not be reached or its answer
\* could not be read
UpstreamFailure(r) ==
  \/ r.kind = "subscribe" /\ r.verification.error = "Verification failed"
  \/ r.kind = "tip" /\ r.error = "Failed to verify transaction"

\* the request r failed for a reason that is final for its signature
TerminalFailure(r) ==
  \/ /\ r.kind = "subscribe"
     /\ r.verification.error \in
          {"Transaction not found", "Transaction failed on-chain",
           "No matching $CREAM transfer found in transaction"}
  \/ /\ r.kind = "tip"
     /\ r.error \in {"Transaction not found on-chain", "Transaction failed on-chain"}

\* C21: in either flow the response to a request that failed on an upstream
\* error carries a kind (status and code) that no response to a request that
\* failed terminally carries.
C21_UpstreamFailureDistinct ==
  \A p, q \in Procs :
    (/\ req[p].pc = "done" /\ req[q].pc = "done"
     /\ req[p].kind = req[q].kind
     /\ UpstreamFailure(req[p]) /\ TerminalFailure(req[q]))
    => <<req[p].status, req[p].code>> # <<req[q].status, req[q].code>>


(***************************************************************************)
(* The token type of a transferChecked instruction.                        *)
(***************************************************************************)
\* ix is a transferChecked instruction of the token program that names a
\* mint other than the expected one
OtherMintChecked(ix) ==
  ix.program = "spl-token" /\ ix.type = "transferChecked" /\ ix.mint # creamTokenMint

\* ix is a transferChecked instruction of the expected mint
CreamChecked(ix) ==
  ix.program = "spl-token" /\ ix.type = "transferChecked" /\ ix.mint = creamTokenMint

\* C29: a transferChecked instruction takes its token type from its own mint
\* field.  One that names the expected mint, whose destination account is
\* owned by the recipient and whose amount is enough makes the result valid
\* (at that instruction or an earlier one) whatever the mint of the
\* destination account is, provided the fetch of its source account does not
\* throw; one that made the result valid names the expected mint, goes to
\* the recipient and moves enough.  One that names another mint never makes
\* the result valid and none of the accounts fetched is fetched for it.
C29_CheckedMintFromInstruction ==
  Scanned =>
    LET all == allInstructions(call.tx)
        res == call.result
    IN /\ \A i \in 1 .. Len(all) :
            (/\ CreamChecked(all[i])
             /\ DestinationOwnedBy(all[i], call.recipientAddress)
             /\ transferCheckedAmount(all[i]) >= call.expectedAmount
             /\ ~SourceFetchThrows(all[i]))
            => res.valid /\ res.hit <= i
       /\ (res.valid /\ all[res.hit].type = "transferChecked")
            => /\ CreamChecked(all[res.hit])
               /\ DestinationOwnedBy(all[res.hit], call.recipientAddress)
               /\ transferCheckedAmount(all[res.hit]) >= call.expectedAmount
       /\ res.valid => ~OtherMintChecked(all[res.hit])
       /\ \A k \in 1 .. Len(res.fetched) :
            \E i \in 1 .. res.scanned :
              /\ ~OtherMintChecked(all[i])
              /\ res.fetched[k] \in {all[i].destination, all[i].source}
       /\ (\A i \in 1 .. Len(all) : OtherMintChecked(all[i]))
            => ~res.valid /\ res.fetched = <<>>

\* a transferChecked of another mint with enough tokens to the recipient's
\* $CREAM account is passed over without a fetch, and a transferChecked of
\* the expected mint to an account of the recipient that holds another mint
\* makes the result valid
C29_Witness ==
  /\ Scanned /\ call.result.valid /\ call.result.hit = 2
  /\ LET all == allInstructions(call.tx)
     IN /\ OtherMintChecked(all[1])
        /\ all[1].destination = "T2c"
        /\ all[1].raw >= call.expectedAmount
        /\ CreamChecked(all[2])
        /\ getParsedAccountInfo(all[2].destination).mint = OtherMint
        /\ call.result.fetched = <<all[2].destination, all[2].source>>


(***************************************************************************)
(* Pairs and their proofs; the amount a proof reports.                     *)
(***************************************************************************)
\* no subscribe call is in progress
NoSubscribeInProgress ==
  \A p \in Procs : req[p].kind = "subscribe" => req[p].pc = "done"

\* C27: in a state with no subscribe call in progress every pair (s, t) of
\* agent_subscriptions has a subscription_transactions row for subscriber s
\* and target t, so a call whose proof insert failed has left no pair.
C27_EveryPairHasProof ==
  NoSubscribeInProgress =>
    \A pair \in agent_subscriptions :
      \E t \in subscription_transactions :
        t.subscriber_id = pair[1] /\ t.target_id = pair[2]

\* the positions of the transaction of request r at which an instruction
\* qualifies for the target's wallet and price
QualifyingPositionsOf(r) ==
  LET all == allInstructions(ChainTransaction(r.sig))
  IN {i \in 1 .. Len(all) :
        Qualifies(all[i], solana_address(r.target), subscription_price(r.target))}

\* C30: a subscribe call that succeeded had a first qualifying transfer; with
\* A the amount that transfer moves, A is at least the price, the
\* verification reports A (the amount returned to the caller), and the proof
\* stored for the signature holds A and the resolved sender.
C30_OverpaymentReported ==
  \A p \in Procs :
    (req[p].kind = "subscribe" /\ req[p].pc = "done" /\ req[p].status = 200) =>
      LET r == req[p]
          all == allInstructions(ChainTransaction(r.sig))
          Q == QualifyingPositionsOf(r)
      IN /\ Q # {}
         /\ LET ix == all[CHOOSE i \in Q : \A k \in Q : i <= k]
            IN /\ ix.raw >= subscription_price(r.target)
               /\ r.verification.valid
               /\ r.verification.amount = ix.raw
               /\ [subscriber_id |-> r.agent, target_id |-> r.target,
                   tx_id |-> r.sig, amount |-> ix.raw,
                   sender_address |-> SenderOf(ix)] \in subscription_transactions


(***************************************************************************)
(* The amounts of the tips rows.                                           *)
(***************************************************************************)
\* round(amount * 0.10, 6 decimal places) of a stored amount, in millionths
RoundedFee(amount) ==
  (amount \div FEE_RATE) + (IF 2 * (amount % FEE_RATE) >= FEE_RATE THEN 1 ELSE 0)

\* C22: every row of tips has fee_amount = round(amount * 0.10, 6 decimal
\* places), amount being the amount stored in the row; a stored amount of
\* 100 has the fee 10.000000 and one of 250 the fee 25.000000.
C22_FeeOfStoredAmount ==
  \A t \in tips :
    /\ t.fee_amount = RoundedFee(t.amount)
    /\ t.amount = 100 * Micro => t.fee_amount = 10 * Micro
    /\ t.amount = 250 * Micro => t.fee_amount = 25 * Micro

\* C23: a tip request whose amount is not positive is answered 400
\* BAD_REQUEST with no recipient looked up and no signature checked, and every
\* row of tips has a stored amount greater than zero.
C23_StoredAmountPositive ==
  /\ \A p \in Procs :
       (req[p].kind = "tip" /\ req[p].amount <= 0) =>
         /\ req[p].pc = "done"
         /\ req[p].status = 400 /\ req[p].code = "BAD_REQUEST"
         /\ req[p].target = ""
  /\ \A t \in tips : t.amount > 0


(***************************************************************************)
(* A tip for a post that does not exist.                                   *)
(***************************************************************************)
\* the tip request r names a post that does not exist, and passes the checks
\* made before the post is looked up
GhostPost(r) ==
  /\ r.kind = "tip"
  /\ r.post # "" /\ r.post \notin Posts
  /\ r.amount > 0
  /\ findByName(r.name) \notin {Null, r.agent}

\* C24: a tip request that names a post which does not exist is answered 404
\* 'Post not found' by the step that receives it: that step changes no table,
\* the request never reaches recordTip (no duplicate check, no transaction
\* fetched), and no tips row names such a post.
C24_MissingPostRejected ==
  /\ [](\A p \in Procs :
          GhostPost(req[p]) =>
            /\ req[p].pc = "done"
            /\ req[p].status = 404 /\ req[p].code = "NOT_FOUND"
            /\ req[p].error = "Post not found")
  /\ [](\A t \in tips : t.post_id \in Posts \cup {""})
  /\ [][\A p \in Procs :
          (GhostPost(req'[p]) /\ req'[p] # req[p]) => UNCHANGED tables]_vars

\* the request for the post that does not exist was refused after its
\* recipient had been looked up, while a tip with the same signature was stored
C24_Witness ==
  \E p \in Procs :
    /\ GhostPost(req[p])
    /\ req[p].pc = "done" /\ req[p].status = 404
    /\ req[p].target = "a2"
    /\ \E t \in tips : t.tx_signature = req[p].sig


(***************************************************************************)
(* Paid posts.                                                             *)
(***************************************************************************)
\* C26: a GET of a paid post answered to a requester that is not the post's
\* author and has no agent_subscriptions pair to the author when the post is
\* read (no requester, never subscribed, or unsubscribed since) returns
\* content and url null and locked true; so content or url of a paid post is
\* returned only to the author or to a present subscriber.
C26_PaidPostLocked ==
  [][\A p \in Procs :
       (/\ req[p].pc = "idle"
        /\ req'[p].kind = "get" /\ req'[p].status = 200
        /\ posts(req'[p].post).paid)
       => LET author == posts(req'[p].post).author_id
              requester == req'[p].agent
          IN (requester # author /\ <<requester, author>> \notin agent_subscriptions)
               => req'[p].data = PostData(Null, Null, TRUE)]_vars

\* a1 has unsubscribed from a2 and then got a2's paid post locked, while the
\* subscriber a3 got its content
C26_Witness ==
  \E p, q, u \in Procs :
    /\ req[u].kind = "unsubscribe" /\ req[u].agent = "a1" /\ req[u].target = "a2"
    /\ req[u].pc = "done" /\ req[u].status = 200
    /\ req[p].kind = "get" /\ req[p].agent = "a1" /\ req[p].post = "post1"
    /\ req[p].data = PostData(Null, Null, TRUE)
    /\ req[q].kind = "get" /\ req[q].agent = "a3" /\ req[q].post = "post1"
    /\ req[q].data = PostData("content1", "url1", FALSE)
    /\ <<"a1", "a2">> \notin agent_subscriptions


(***************************************************************************)
(* Termination of a verification call.                                     *)
(***************************************************************************)
\* C25: every verification call that was made returns in the end, also when
\* the node never answers.
C25_VerificationTerminates ==
  (call.pc \in {"called", "waiting"}) ~> (call.pc = "returned")


(***************************************************************************)
(* transaction(callback) of config/database.js, statement by statement,    *)
(* with the callback of AgentService.subscribe.  call is the invocation:   *)
(* client is "none", "held" or "released"; inserted and incremented are    *)
(* the writes of the open transaction, which no other session sees before  *)
(* COMMIT; statements are the statements sent on the client, in order;     *)
(* before is the database when the invocation started.  The connect and   *)
(* every statement from BEGIN to COMMIT may be rejected (ok = FALSE): the  *)
(* await throws and the statement has no effect; a COMMIT that throws has  *)
(* committed nothing.                                                      *)
(***************************************************************************)
Transact(subscriberId, targetAgentId, pairs, count) ==
  [pc |-> "connect", subscriberId |-> subscriberId,
   targetAgentId |-> targetAgentId, client |-> "none", inserted |-> {},
   incremented |-> 0, statements |-> <<>>, outcome |-> "", result |-> FALSE,
   before |-> [agent_subscriptions |-> pairs, subscriber_count |-> count]]

InitTransaction ==
  /\ tips = {}
  /\ subscription_transactions = {}
  /\ agent_subscriptions \in
       {{}, {<<"a1", "a2">>}, {<<"a3", "a2">>}, {<<"a1", "a2">>, <<"a3", "a2">>}}
  /\ subscriber_count =
       [a \in Agents |-> Cardinality({x \in agent_subscriptions : x[2] = a})]
  /\ tip_count = [a \in Agents |-> 0]
  /\ tip_volume = [a \in Agents |-> 0]
  /\ req = [p \in Procs |-> Idle]
  /\ agentService \in {OnConflict, CheckThenInsert}
  /\ InitVoting
  /\ InitLimiter
  /\ \E subscriberId \in Agents, targetAgentId \in Agents :
       /\ subscriberId # targetAgentId
       /\ call = Transact(subscriberId, targetAgentId, agent_subscriptions,
                          subscriber_count)

\* const client = await db.connect(), before the try block
transactionConnect ==
  /\ call.pc = "connect"
  /\ \E ok \in BOOLEAN :
       call' = IF ok THEN [call EXCEPT !.pc = "begin", !.client = "held"]
               ELSE [call EXCEPT !.pc = "done", !.outcome = "thrown"]
  /\ UNCHANGED <<tables, req, agentService, voting, limiter>>

\* await client.query('BEGIN')
transactionBegin ==
  /\ call.pc = "begin"
  /\ \E ok \in BOOLEAN :
       call' = [call EXCEPT !.statements = Append(@, "BEGIN"),
                            !.pc = IF ok THEN "insert" ELSE "rollback"]
  /\ UNCHANGED <<tables, req, agentService, voting, limiter>>

\* transactionInsert writing the pair outside the transaction (committed at
\* once, as a statement sent with query instead of client.query would be)
transactionInsertAutocommit ==
  /\ call.pc = "insert"
  /\ LET pair == <<call.subscriberId, call.targetAgentId>>
     IN \E ok \in BOOLEAN :
          IF ~ok
          THEN /\ call' = [call EXCEPT !.statements = Append(@, "INSERT"),
                                       !.pc = "rollback"]
               /\ UNCHANGED agent_subscriptions
          ELSE IF pair \in agent_subscriptions
          THEN /\ call' = [call EXCEPT !.statements = Append(@, "INSERT"),
                             !.pc = IF agentService = OnConflict
                                    THEN "commit" ELSE "rollback"]
               /\ UNCHANGED agent_subscriptions
          ELSE /\ call' = [call EXCEPT !.statements = Append(@, "INSERT"),
                                       !.pc = "update"]
               /\ agent_subscriptions' = agent_subscriptions \cup {pair}
  /\ UNCHANGED <<tips, subscription_transactions, subscriber_count, tip_count,
                 tip_volume, req, agentService, voting, limiter>>

\* the INSERT of the callback: with ON CONFLICT DO NOTHING (part_010) a pair
\* that exists gives no row and the callback returns false; the plain INSERT
\* (services/AgentService.js) violates UNIQUE and throws
transactionInsert ==
  /\ call.pc = "insert"
  /\ LET pair == <<call.subscriberId, call.targetAgentId>>
     IN \E ok \in BOOLEAN :
          call' =
            IF ~ok
            THEN [call EXCEPT !.statements = Append(@, "INSERT"), !.pc = "rollback"]
            ELSE IF pair \in agent_subscriptions
            THEN [call EXCEPT !.statements = Append(@, "INSERT"),
                              !.pc = IF agentService = OnConflict
                                     THEN "commit" ELSE "rollback"]
            ELSE [call EXCEPT !.statements = Append(@, "INSERT"),
                              !.inserted = {pair}, !.pc = "update"]
  /\ UNCHANGED <<tables, req, agentService, voting, limiter>>

\* the UPDATE of the callback, after which the callback returns true
transactionUpdate ==
  /\ call.pc = "update"
  /\ \E ok \in BOOLEAN :
       call' = IF ok
               THEN [call EXCEPT !.statements = Append(@, "UPDATE"),
                                 !.incremented = 1, !.result = TRUE,
                                 !.pc = "commit"]
               ELSE [call EXCEPT !.statements = Append(@, "UPDATE"),
                                 !.pc = "rollback"]
  /\ UNCHANGED <<tables, req, agentService, voting, limiter>>

\* await client.query('COMMIT'); return result
transactionCommit ==
  /\ call.pc = "commit"
  /\ \E ok \in BOOLEAN :
       IF ok
       THEN /\ agent_subscriptions' = agent_subscriptions \cup call.inserted
            /\ subscriber_count' =
                 [subscriber_count EXCEPT ![call.targetAgentId] = @ + call.incremented]
            /\ call' = [call EXCEPT !.statements = Append(@, "COMMIT"),
                                    !.inserted = {}, !.incremented = 0,
                                    !.outcome = "returned", !.pc = "release"]
       ELSE /\ call' = [call EXCEPT !.statements = Append(@, "COMMIT"),
                                    !.pc = "rollback"]
            /\ UNCHANGED <<agent_subscriptions, subscriber_count>>
  /\ UNCHANGED <<tips, subscription_transactions, tip_count, tip_volume, req,
                 agentService, voting, limiter>>

\* catch (error) { await client.query('ROLLBACK'); throw error; }
transactionRollback ==
  /\ call.pc = "rollback"
  /\ call' = [call EXCEPT !.statements = Append(@, "ROLLBACK"),
                          !.inserted = {}, !.incremented = 0, !.result = FALSE,
                          !.outcome = "thrown", !.pc = "release"]
  /\ UNCHANGED <<tables, req, agentService, voting, limiter>>

\* finally { client.release(); }
transactionRelease ==
  /\ call.pc = "release"
  /\ call' = [call EXCEPT !.client = "released", !.pc = "done"]
  /\ UNCHANGED <<tables, req, agentService, voting, limiter>>

transaction ==
  \/ transactionConnect
  \/ transactionBegin
  \/ transactionInsert
  \/ transactionUpdate
  \/ transactionCommit
  \/ transactionRollback
  \/ transactionRelease

SpecTransaction == InitTransaction /\ [][transaction]_vars

\* C28: the pair and the increment of AgentService.subscribe are one unit of
\* work.  Nothing of the transaction is in the tables before COMMIT, the pair
\* is in agent_subscriptions exactly when the target's subscriber_count is
\* incremented, and no other row or counter changes.  A transaction that
\* returned sent BEGIN first and COMMIT last with no ROLLBACK, and it
\* returned true exactly when it stored the pair.  A transaction that threw
\* after BEGIN sent ROLLBACK last and left the tables as they were.  In every
\* case a client that was obtained is released when the call ends.
C28_TransactionUnitOfWork ==
  call.pc # "none" =>
    LET pair == <<call.subscriberId, call.targetAgentId>>
        b == call.before
        stored == pair \in agent_subscriptions /\ pair \notin b.agent_subscriptions
        last == call.statements[Len(call.statements)]
    IN /\ agent_subscriptions \ {pair} = b.agent_subscriptions \ {pair}
       /\ b.agent_subscriptions \subseteq agent_subscriptions
       /\ \A a \in Agents \ {call.targetAgentId} :
            subscriber_count[a] = b.subscriber_count[a]
       /\ subscriber_count[call.targetAgentId] =
            b.subscriber_count[call.targetAgentId] + (IF stored THEN 1 ELSE 0)
       /\ call.outcome # "returned" => ~stored
       /\ call.outcome = "returned" =>
            /\ Head(call.statements) = "BEGIN" /\ last = "COMMIT"
            /\ \A i \in 1 .. Len(call.statements) : call.statements[i] # "ROLLBACK"
            /\ call.result <=> stored
       /\ (call.outcome = "thrown" /\ call.statements # <<>>) =>
            /\ Head(call.statements) = "BEGIN" /\ last = "ROLLBACK"
       /\ call.pc = "done" =>
            /\ call.outcome \in {"returned", "thrown"}
            /\ call.client = IF call.statements = <<>> THEN "none" ELSE "released"

\* the UPDATE was rejected after the INSERT had been accepted: the call threw
\* after ROLLBACK, the client is released, neither pair nor increment is stored
C28_Witness ==
  /\ call.pc = "done" /\ call.outcome = "thrown"
  /\ call.statements = <<"BEGIN", "INSERT", "UPDATE", "ROLLBACK">>
  /\ call.client = "released"
  /\ <<call.subscriberId, call.targetAgentId>> \notin agent_subscriptions
  /\ subscriber_count = call.before.subscriber_count


(***************************************************************************)
(* The round trips of a verification call.                                 *)
(***************************************************************************)
\* the requests a returned call has sent to the node: getParsedTransaction
\* once, then one getParsedAccountInfo for every address fetched
RoundTrips == 1 + Len(call.result.fetched)

\* C31: a verification call makes at least one and at most three round trips
\* to the node, whatever the number of transfer instructions: the transaction
\* fetch and at most two account fetches.
C31_AtMostThreeRoundTrips ==
  call.pc = "returned" => (RoundTrips >= 1 /\ RoundTrips <= 3)


(***************************************************************************)
(* verifyCreamTransfer is total.                                           *)
(***************************************************************************)
\* C32: whatever the node reported (an exception or no transaction for the
\* signature, exceptions or no account for the addresses fetched) and
\* whatever the instructions are, the call returns a result object with a
\* boolean valid, an amount, a sender and an error text; a result that is not
\* valid names its reason; and the step of the call changes no table and no
\* counter.
C32_VerifyTotal ==
  /\ [](call.pc = "returned" =>
          /\ DOMAIN call.result =
               {"valid", "amount", "sender", "error", "fetched", "scanned", "hit"}
          /\ call.result.valid \in BOOLEAN
          /\ call.result.valid <=> call.result.error = ""
          /\ NothingPersisted)
  /\ [][call' # call => UNCHANGED tables]_vars

\* the call returned a result that is not valid after getParsedTransaction
\* threw
C32_Witness ==
  /\ call.pc = "returned" /\ call.tx.st = Throws
  /\ call.result = Invalid("Verification failed", <<>>, 0)


(***************************************************************************)
(* The counters a payment operation touches.                               *)
(***************************************************************************)
\* C33: a step that changes tip_count or tip_volume of an agent is the last
\* step of a recordTip call whose recipient is that agent and whose tipper is
\* another agent, it changes the tip counters of no other agent and no
\* subscriber_count; a step that changes subscriber_count of an agent is a
\* step of a subscribe or unsubscribe call whose target is that agent and
\* whose subscriber is another agent, it changes the subscriber_count of no
\* other agent and no tip counter.
C33_OnlyOwnAggregates ==
  [][/\ \A a \in Agents :
          (tip_count'[a] # tip_count[a] \/ tip_volume'[a] # tip_volume[a]) =>
            /\ \E p \in Procs :
                 /\ req[p].kind = "tip" /\ req'[p] # req[p]
                 /\ req'[p].status = 201
                 /\ req[p].target = a /\ req[p].agent # a
            /\ \A b \in Agents \ {a} :
                 tip_count'[b] = tip_count[b] /\ tip_volume'[b] = tip_volume[b]
            /\ subscriber_count' = subscriber_count
     /\ \A a \in Agents :
          subscriber_count'[a] # subscriber_count[a] =>
            /\ \E p \in Procs :
                 /\ req[p].kind \in {"subscribe", "unsubscribe"}
                 /\ req'[p] # req[p]
                 /\ req[p].target = a /\ req[p].agent # a
            /\ \A b \in Agents \ {a} : subscriber_count'[b] = subscriber_count[b]
            /\ tip_count' = tip_count /\ tip_volume' = tip_volume]_vars

\* a1 has tipped a2 and subscribed to a2, and has later unsubscribed: a2's
\* tip counters count the tip, and no counter of a1 or a3 has changed
C33_Witness ==
  /\ tip_count = [a \in Agents |-> IF a = "a2" THEN 1 ELSE 0]
  /\ tip_volume["a2"] > 0 /\ tip_volume["a1"] = 0 /\ tip_volume["a3"] = 0
  /\ subscriber_count = [a \in Agents |-> 0]
  /\ \E p, q, u \in Procs :
       /\ req[p].kind = "tip" /\ req[p].agent = "a1" /\ req[p].status = 201
       /\ req[q].kind = "subscribe" /\ req[q].agent = "a1"
       /\ req[q].action = "subscribed"
       /\ req[u].kind = "unsubscribe" /\ req[u].agent = "a1"
       /\ req[u].pc = "done" /\ req[u].status = 200
       /\ subscription_transactions # {}


\* C34: once every vote call has returned, the score of each post is the sum
\* of the values of the votes rows that target it.
VotesOn(id) == {r \in votes : r.target_id = id}

C34_ScoreIsSumOfVotes ==
  (\A p \in Procs : vote[p].pc \in {"idle", "done"}) =>
    \A id \in Posts :
      score[id] = Sum([r \in VotesOn(id) |-> r.value], VotesOn(id))

\* the slots whose request of the key was allowed at a time from lo to hi
AllowedIn(key, lo, hi) ==
  {q \in Procs : /\ limited[q].pc = "done"
                 /\ limited[q].key = key
                 /\ limited[q].allowed
                 /\ limited[q].at >= lo
                 /\ limited[q].at <= hi}

\* the time of the oldest allowed request among the slots of S
OldestOf(S) ==
  LET q == CHOOSE q \in S : \A o \in S : limited[q].at <= limited[o].at
  IN limited[q].at

\* a request of slot p is answered in this step
Answered(p) == limited[p].pc = "idle" /\ limited'[p].pc = "done"

\* C35: a request is allowed exactly when fewer than max allowed requests of
\* its key lie within the preceding window; a rejected request is not
\* recorded and is told the time until the oldest request of the window
\* expires; so no window of limit.window seconds holds more than limit.max
\* allowed requests of a key.
C35_SlidingWindowLimit ==
  /\ [][\A p \in Procs : Answered(p) =>
          LET r == limited'[p]
              lim == rateLimits(r.key[2])
              recent == AllowedIn(r.key, now - lim.window * Second, now)
          IN /\ r.allowed <=> Cardinality(recent) < lim.max
             /\ r.limit = lim.max
             /\ ~r.allowed =>
                  /\ storage' = storage
                  /\ r.remaining = 0
                  /\ r.retryAfter =
                       ceil(OldestOf(recent) + lim.window * Second - now)]_vars
  /\ [](\A key \in LimitRequests : \A s \in 0..MaxNow :
          Cardinality(AllowedIn(key, s, s + rateLimits(key[2]).window * Second))
            <= rateLimits(key[2]).max)

\* a request is rejected and told to retry in a second, and a request of the
\* same key is allowed once the window has passed
C35_Witness ==
  \E p, q, o \in Procs :
    /\ limited[p].pc = "done" /\ ~limited[p].allowed
    /\ limited[p].retryAfter = 1
    /\ limited[q].pc = "done" /\ limited[q].allowed
    /\ limited[q].key = limited[p].key
    /\ limited[q].at < limited[p].at
    /\ limited[o].pc = "done" /\ limited[o].allowed
    /\ limited[o].key = limited[p].key
    /\ limited[o].at > limited[p].at

=============================================================================
